---- MODULE Spec2Model ----
(***************************************************************************)
(* Live-preview virtual serving and cross-context synchronisation of the   *)
(* Phoenix editor: the editor-side static server (BrowserStaticServer.js)  *)
(* and the popped-out loader page (live-preview-loader.html).              *)
(***************************************************************************)
EXTENDS Integers, Sequences, FiniteSets, TLC

\* ------------------------------------------------------------------------
\* Bounds of the model
\* ------------------------------------------------------------------------
MaxRequests == 2

\* ------------------------------------------------------------------------
\* Values: paths, URLs, contents
\* ------------------------------------------------------------------------
\* A logical path is (project root directory, file name, extension).
NoPath == [root |-> "", name |-> "", ext |-> ""]
OldHtml == [root |-> "/proj/", name |-> "old", ext |-> "html"]
NewHtml == [root |-> "/proj/", name |-> "new", ext |-> "html"]
ReadmeMd == [root |-> "/proj/", name |-> "readme", ext |-> "md"]
NotesMd == [root |-> "/other/", name |-> "notes", ext |-> "md"]
Paths == {OldHtml, NewHtml, ReadmeMd, NotesMd}
Roots == {"/proj/", "/other/"}

\* Phoenix.PHOENIX_INSTANCE_ID of this editor and of another editor instance,
\* as sequences of characters.
PHOENIX_INSTANCE_ID == <<1>>
OtherInstanceID == <<2>>
InstanceIDs == {PHOENIX_INSTANCE_ID, OtherInstanceID}

\* s.startsWith(p) on sequences of characters
StartsWith(s, p) == Len(p) <= Len(s) /\ SubSeq(s, 1, Len(p)) = p

\* A served URL: the instance ID of its /vfs/PHOENIX_LIVE_PREVIEW_<id>
\* prefix, the path that follows and the phcodeLivePreview query flag.
NoURL == [inst |-> <<>>, path |-> NoPath, popout |-> FALSE]
URLs == [inst : InstanceIDs, path : Paths, popout : BOOLEAN]

\* StaticServer._baseUrl = PREVIEW_BASE_URL, the prefix of this instance
PREVIEW_BASE_URL == PHOENIX_INSTANCE_ID

\* url.startsWith(_staticServerInstance.getBaseUrl()): the path part starts
\* with "/" and an ID has no "/", so only the ID part decides.
UrlStartsWithBaseUrl(url) == StartsWith(url.inst, PREVIEW_BASE_URL)

\* Contents of a response (or of a stored document).  kind "undefined" is a
\* missing map entry, "null" is the 404 value.
Content(kind, text, script, target) ==
    [kind |-> kind, text |-> text, script |-> script, target |-> target]
Undefined == Content("undefined", "", FALSE, NoURL)
Null == Content("null", "", FALSE, NoURL)
Text(t) == Content("text", t, FALSE, NoURL)
\* JavaScript truthiness of a string-or-undefined value
Truthy(c) == c.kind = "text" /\ c.text # ""

OverlayTexts == {"", "<p>overlay</p>"}
OpenTexts == {"# Hi"}
DiskTexts == {"", "BOM# Hi"}
\* the body a live document answers with: instrumented (carrying the
\* LiveDevProtocol remote script) or the plain html
LiveBody(script) == Content("text", "<html>live</html>", script, NoURL)

\* Map.prototype.set and the removal of a set of keys
MapSet(map, key, value) ==
    [k \in DOMAIN map \cup {key} |-> IF k = key THEN value ELSE map[k]]
MapDelete(map, keys) == [k \in DOMAIN map \ keys |-> map[k]]

\* the number of messages the editor is let post on the navigation channel,
\* and of GET_INITIAL_URL messages waiting for it
MaxMessages == 3

\* ------------------------------------------------------------------------
\* State
\* ------------------------------------------------------------------------
Instances == {"A", "B"}
NoInstance == "undefined"

VARIABLES
    staticServerInstance,     \* _staticServerInstance
    virtualServingDocuments,  \* per StaticServer: _virtualServingDocuments
    liveDocuments,            \* per StaticServer: _liveDocuments
    openDocuments,            \* DocumentManager: documents open in an editor
    disk,                     \* the file system
    currentFile,              \* file of the current document / selected item
    projectRoot,              \* ProjectManager.getProjectRoot().fullPath
    requests,                 \* GET_CONTENT received by the editor, in order
    sent,                     \* messages posted by the editor, in order
    loader,                   \* per loader page: its script variables and frames
    livePreviewTabs,          \* livePreviewTabs: the record of each tracked tab
    now,                      \* the time new Date() returns
    swept,                    \* the time the sweep timer last fired
    beat,                     \* per tab: when its heartbeat timer last fired
    closed,                   \* clientIDs of the BROWSER_CLOSE events triggered
    currentPopoutURL,         \* currentPopoutURL
    navigatorChannel,         \* messages the editor posted on navigatorChannel
    received,                 \* per joined loader page: how many it has handled
    initialUrlRequests,       \* GET_INITIAL_URL messages not yet handled
    loadingProject,           \* the project load whose continuation is pending
    routed,                   \* envelopes livePreviewChannel.onmessage has handled
    triggered,                \* events the router triggered on the module
    reported,                 \* errors given to logger.reportError
    forwarded,                \* per loader page: messages passed to its server frame
    heard,                    \* per loader page: relay messages its handler has taken
    previewSettings,          \* what getPreviewDetails reads besides the current file
    previewDetails            \* what getPreviewDetails last resolved with

resolverVars == <<staticServerInstance, virtualServingDocuments, liveDocuments,
                  openDocuments, disk, currentFile, projectRoot>>
protocolVars == <<requests, sent>>
registryVars == <<livePreviewTabs, now, swept, beat, closed>>
navigatorVars == <<currentPopoutURL, navigatorChannel, received, initialUrlRequests,
                   loadingProject>>
routerVars == <<routed, triggered, reported, forwarded, heard>>
previewVars == <<previewSettings, previewDetails>>
\* what the handler of a navigation message on a loader page leaves alone,
\* and what the load of a loader page leaves alone
editorVars == <<registryVars, currentPopoutURL, navigatorChannel, initialUrlRequests,
                loadingProject, resolverVars, protocolVars, routerVars, previewVars>>
editorFrame == <<registryVars, currentPopoutURL, navigatorChannel, loadingProject,
                 resolverVars, protocolVars, routerVars, previewVars>>
coordinatorVars == <<registryVars, navigatorVars, routerVars, previewVars>>
vars == <<resolverVars, protocolVars, loader, coordinatorVars>>

\* ------------------------------------------------------------------------
\* Collaborators whose code is outside this subsystem
\* ------------------------------------------------------------------------
\* ProjectManager.isWithinProject -> ProjectModel.isWithinProject
IsWithinProject(path) == path.root = projectRoot

\* BaseServer._documentKey: the key of a path in the per-server maps
DocumentKey(path) == path

\* utils.isMarkdownFile
IsMarkdownFile(path) == path.ext \in {"md", "markdown"}

\* text.replace(/^[zero-width characters]/, ""): drops one leading zero-width
\* character (here the byte order mark, written BOM)
StripZeroWidth(text) == IF text = "BOM# Hi" THEN "# Hi" ELSE text

\* marked.parse: markdown text to HTML
MarkedParse(text) ==
    CASE text = "# Hi" -> "<h1>Hi</h1>"
      [] text = "BOM# Hi" -> "<p>BOM# Hi</p>"
      [] OTHER -> ""

\* ------------------------------------------------------------------------
\* Content resolution (BrowserStaticServer.js)
\* ------------------------------------------------------------------------
NoHeaders == "undefined"
Response(path, contents, headers) ==
    [path |-> path, contents |-> contents, headers |-> headers]
NoResponse == Response(NoPath, Undefined, NoHeaders)

\* The state of the promise a resolution returns: resolved with a response,
\* rejected, or waiting for fs.readFile / DocumentManager.getDocumentForPath.
Resolved(response) == [kind |-> "resolved", response |-> response]
Rejected == [kind |-> "rejected", response |-> NoResponse]
WaitsFor(what) == [kind |-> what, response |-> NoResponse]

\* _getRedirectionPage without the searchParams.delete
GetRedirectionPage_KeepsFlag(redirectURL) ==
    Content("redirect", "", FALSE, redirectURL)

\* _getRedirectionPage: the redirect page for the given URL, with the
\* phcodeLivePreview query parameter deleted from it
GetRedirectionPage(redirectURL) ==
    Content("redirect", "", FALSE, [redirectURL EXCEPT !.popout = FALSE])

\* the extension test that attaches the Content-Type header
HtmlHeaders(path) ==
    IF path.ext \in {"htm", "html", "xhtml", "php"}
    THEN "text/html;charset=UTF-8" ELSE NoHeaders

\* the page _getMarkdown renders from the text of a document
MarkdownResponse(fullPath, text) ==
    Response(fullPath,
             Content("markdown", MarkedParse(StripZeroWidth(text)), FALSE, NoURL),
             "text/html")

\* _getMarkdown: an open document answers at once, otherwise the document
\* is loaded first
GetMarkdown(fullPath) ==
    IF openDocuments[fullPath] # Undefined
    THEN Resolved(MarkdownResponse(fullPath, openDocuments[fullPath].text))
    ELSE WaitsFor("getDocument")

\* _getInstrumentedContent reading the disk without asking for an open document
GetInstrumentedContent_SkipsOpenDocument(self, requestedPath, url) ==
    LET path == DocumentKey(requestedPath)
        liveDocument == liveDocuments[self][path]
        virtualDocument == virtualServingDocuments[self][path]
    IN  IF ~IsWithinProject(requestedPath)
        THEN Resolved(Response(path, Null, NoHeaders))
        ELSE IF Truthy(virtualDocument)
        THEN Resolved(Response(path, virtualDocument, HtmlHeaders(path)))
        ELSE IF liveDocument # Undefined
        THEN Resolved(Response(path,
                 IF url.popout /\ ~liveDocument.script
                 THEN GetRedirectionPage(url) ELSE liveDocument,
                 HtmlHeaders(path)))
        ELSE WaitsFor("readFile")

\* StaticServer.prototype._getInstrumentedContent, on server instance self
GetInstrumentedContent(self, requestedPath, url) ==
    LET path == DocumentKey(requestedPath)
        liveDocument == liveDocuments[self][path]
        virtualDocument == virtualServingDocuments[self][path]
    IN  IF ~IsWithinProject(requestedPath)
        THEN Resolved(Response(path, Null, NoHeaders))
        ELSE IF Truthy(virtualDocument)
        THEN Resolved(Response(path, virtualDocument, HtmlHeaders(path)))
        ELSE IF liveDocument # Undefined
        THEN Resolved(Response(path,
                 IF url.popout /\ ~liveDocument.script
                 THEN GetRedirectionPage(url) ELSE liveDocument,
                 HtmlHeaders(path)))
        ELSE IF openDocuments[requestedPath] # Undefined
        THEN Resolved(Response(path, openDocuments[requestedPath], HtmlHeaders(path)))
        ELSE WaitsFor("readFile")

\* getContent resolving with the instance created first, whichever is started
GetContent_FirstInstance(path, url) ==
    IF staticServerInstance = NoInstance THEN Rejected
    ELSE IF ~UrlStartsWithBaseUrl(url) THEN Rejected
    ELSE IF IsMarkdownFile(path) /\ currentFile # NoPath /\ currentFile = path
    THEN GetMarkdown(path)
    ELSE GetInstrumentedContent("A", path, url)

\* getContent rendering every markdown path, current file or not
GetContent_RendersAnyMarkdown(path, url) ==
    IF staticServerInstance = NoInstance THEN Rejected
    ELSE IF ~UrlStartsWithBaseUrl(url) THEN Rejected
    ELSE IF IsMarkdownFile(path)
    THEN GetMarkdown(path)
    ELSE GetInstrumentedContent(staticServerInstance, path, url)

\* StaticServer.prototype.isActive
IsActive(self) == staticServerInstance = self

\* getContent without the test of the URL against the base URL
GetContent_AnyUrl(path, url) ==
    IF staticServerInstance = NoInstance THEN Rejected
    ELSE IF IsMarkdownFile(path) /\ currentFile # NoPath /\ currentFile = path
    THEN GetMarkdown(path)
    ELSE GetInstrumentedContent(staticServerInstance, path, url)

\* getContent
GetContent(path, url) ==
    IF staticServerInstance = NoInstance THEN Rejected
    ELSE IF ~UrlStartsWithBaseUrl(url) THEN Rejected
    ELSE IF IsMarkdownFile(path) /\ currentFile # NoPath /\ currentFile = path
    THEN GetMarkdown(path)
    ELSE GetInstrumentedContent(staticServerInstance, path, url)

\* the fs.readFile callback answering a failed read like an empty file
ReadFileResult_EmptyOnError(requestedPath) ==
    Response(DocumentKey(requestedPath),
             IF disk[requestedPath] = Undefined THEN Text("") ELSE disk[requestedPath],
             NoHeaders)

\* the callback of fs.readFile in _getInstrumentedContent
ReadFileResult(requestedPath) ==
    Response(DocumentKey(requestedPath),
             IF disk[requestedPath] = Undefined THEN Null ELSE disk[requestedPath],
             NoHeaders)

\* _getMarkdown answering a document that cannot be loaded like a missing file
GetDocumentResult_NullOnError(fullPath) ==
    IF disk[fullPath] = Undefined
    THEN Resolved(Response(fullPath, Null, NoHeaders))
    ELSE Resolved(MarkdownResponse(fullPath, disk[fullPath].text))

\* the done / fail callbacks of getDocumentForPath in _getMarkdown
GetDocumentResult(fullPath) ==
    IF disk[fullPath] = Undefined THEN Rejected
    ELSE Resolved(MarkdownResponse(fullPath, disk[fullPath].text))

\* ------------------------------------------------------------------------
\* Requests and responses (editor side)
\* ------------------------------------------------------------------------
Loaders == {"L1", "L2"}
NoLoader == "null"

\* origins of the allowlist of the loader page
TRUSTED_ORIGINS ==
    {"http://localhost:8000", "http://localhost:8001", "http://localhost:5000",
     "http://127.0.0.1:8000", "http://127.0.0.1:8001", "http://127.0.0.1:5000",
     "https://phcode.live", "https://phcode.dev", "https://dev.phcode.dev",
     "https://staging.phcode.dev", "https://create.phcode.dev",
     "https://phcode-live.ts.r.appspot.com", "https://csinschools.io"}
\* origins a window message may come from
Origins == {"https://phcode.live", "https://evil.example"}
EditorOrigin == "https://phcode.dev"

\* A GET_CONTENT message of a surface; its requestID is its position in
\* requests.  via: a window message to a loader page that relays it on the
\* relay channel ("relay"), or an event of the server frame embedded in the
\* editor ("embedded").  state: "discarded" by the loader page, "relayed" and
\* not yet delivered to the editor, "ignored" by the editor, else the state of
\* the promise of getContent ("readFile", "getDocument", "rejected") or
\* "answered" once the REQUEST_RESPONSE is posted.
Request(requestID, path, url, via, pageLoaderID, origin, state) ==
    [requestID |-> requestID, path |-> path, url |-> url, via |-> via,
     pageLoaderID |-> pageLoaderID, origin |-> origin, state |-> state]

\* A REQUEST_RESPONSE as posted: the response with type and requestID set,
\* the pageLoaderID of its envelope on the relay channel, and whether it is
\* also posted to the embedded server frame.
Posted(requestID, response, pageLoaderID, toIframe) ==
    [type |-> "REQUEST_RESPONSE", requestID |-> requestID,
     path |-> response.path, contents |-> response.contents,
     headers |-> response.headers, pageLoaderID |-> pageLoaderID,
     toIframe |-> toIframe]

\* the handlers keeping the request ID in one variable shared by all requests
SendResponse_SharedRequestID(req, response) ==
    IF req.via = "relay"
    THEN Append(sent, Posted(Len(requests), response, req.pageLoaderID, FALSE))
    ELSE Append(sent, Posted(Len(requests), response, NoLoader, TRUE))

\* .then(response => ...) of the two GET_CONTENT handlers:
\* _sendToLivePreviewServerTabs(response, pageLoaderID) for the relay channel,
\* messageToLivePreviewTabs(response) for the embedded server event
SendResponse(req, response) ==
    IF req.via = "relay"
    THEN Append(sent, Posted(req.requestID, response, req.pageLoaderID, FALSE))
    ELSE Append(sent, Posted(req.requestID, response, NoLoader, TRUE))

\* the handler body shared by both transports, for the message req:
\* getContent(path, url).then(post the response).catch(console.error)
HandleGetContent(reqs, req) ==
    LET promise == GetContent(req.path, req.url)
        state == IF promise.kind = "resolved" THEN "answered" ELSE promise.kind
    IN  /\ requests' = [reqs EXCEPT ![req.requestID].state = state]
        /\ sent' = IF promise.kind = "resolved"
                   THEN SendResponse(req, promise.response) ELSE sent

\* the message listener without the TRUSTED_ORIGINS test
WindowMessage_NoOriginCheck(l, origin, path, url) ==
    /\ Len(requests) < MaxRequests
    /\ requests' = Append(requests,
          Request(Len(requests) + 1, path, url, "relay", l, origin, "relayed"))
    /\ UNCHANGED <<coordinatorVars, resolverVars, sent, loader>>

\* the message listener of the loader page window: a message of an origin
\* outside the allowlist is dropped, any other is posted on the relay channel
\* under the pageLoaderID of the page
WindowMessage(l, origin, path, url) ==
    /\ Len(requests) < MaxRequests
    /\ requests' = Append(requests,
          Request(Len(requests) + 1, path, url, "relay", l, origin,
                  IF origin \notin TRUSTED_ORIGINS THEN "discarded" ELSE "relayed"))
    /\ UNCHANGED <<coordinatorVars, resolverVars, sent, loader>>

\* livePreviewChannel.onmessage of the editor, case EVENT_GET_CONTENT: the
\* relay channel delivers in the order sent
RelayGetContent(i) ==
    /\ i \in DOMAIN requests
    /\ requests[i].state = "relayed"
    /\ \A j \in 1..(i - 1) : requests[j].state # "relayed"
    /\ HandleGetContent(requests, requests[i])
    /\ UNCHANGED <<coordinatorVars, resolverVars, loader>>

\* exports.on(EVENT_GET_CONTENT): an event of the embedded server frame
EmbeddedGetContent(path, url, phoenixInstanceID) ==
    /\ Len(requests) < MaxRequests
    /\ LET req == Request(Len(requests) + 1, path, url, "embedded", NoLoader,
                          EditorOrigin, "ignored")
       IN  IF phoenixInstanceID = PHOENIX_INSTANCE_ID
           THEN HandleGetContent(Append(requests, req), req)
           ELSE /\ requests' = Append(requests, req)
                /\ sent' = sent
    /\ UNCHANGED <<coordinatorVars, resolverVars, loader>>

\* fs.readFile callback that rejects on a read error
ReadFileDone_RejectsOnError(i) ==
    /\ i \in DOMAIN requests
    /\ requests[i].state = "readFile"
    /\ requests' = [requests EXCEPT ![i].state =
            IF disk[requests[i].path] = Undefined THEN "rejected" ELSE "answered"]
    /\ sent' = IF disk[requests[i].path] = Undefined THEN sent
               ELSE SendResponse(requests[i], ReadFileResult(requests[i].path))
    /\ UNCHANGED <<coordinatorVars, resolverVars, loader>>

\* fs.readFile calls back: the promise resolves and the response is posted
ReadFileDone(i) ==
    /\ i \in DOMAIN requests
    /\ requests[i].state = "readFile"
    /\ requests' = [requests EXCEPT ![i].state = "answered"]
    /\ sent' = SendResponse(requests[i], ReadFileResult(requests[i].path))
    /\ UNCHANGED <<coordinatorVars, resolverVars, loader>>

\* getDocumentForPath settles: done renders and posts, fail rejects
GetDocumentDone(i) ==
    /\ i \in DOMAIN requests
    /\ requests[i].state = "getDocument"
    /\ LET promise == GetDocumentResult(requests[i].path)
       IN  /\ requests' = [requests EXCEPT ![i].state =
                   IF promise.kind = "resolved" THEN "answered" ELSE "rejected"]
           /\ sent' = IF promise.kind = "resolved"
                      THEN SendResponse(requests[i], promise.response) ELSE sent
    /\ UNCHANGED <<coordinatorVars, resolverVars, loader>>

\* StaticServer.prototype.start / stop
StartServer(self) ==
    /\ staticServerInstance' = self
    /\ UNCHANGED <<virtualServingDocuments, liveDocuments, openDocuments, disk,
                   currentFile, projectRoot, protocolVars, loader, coordinatorVars>>

StopServer(self) ==
    /\ staticServerInstance' = NoInstance
    /\ UNCHANGED <<virtualServingDocuments, liveDocuments, openDocuments, disk,
                   currentFile, projectRoot, protocolVars, loader, coordinatorVars>>

\* the editor makes another document the current one
SetCurrentFile(path) ==
    /\ currentFile' = path
    /\ UNCHANGED <<staticServerInstance, virtualServingDocuments, liveDocuments,
                   openDocuments, disk, projectRoot, protocolVars, loader,
                   coordinatorVars>>

\* ------------------------------------------------------------------------
\* The loader page (live-preview-loader.html)
\* ------------------------------------------------------------------------
\* what a frame shows before it is navigated, and the value a script
\* variable has before it is assigned (as a URL: the string "undefined")
AboutBlank == [inst |-> <<>>, path |-> [root |-> "", name |-> "about:blank", ext |-> ""],
               popout |-> FALSE]
UndefinedURL == [inst |-> <<>>, path |-> [root |-> "", name |-> "undefined", ext |-> ""],
                 popout |-> FALSE]

\* preview URLs the editor broadcasts: a file of each project root, and a
\* file whose name carries a percent-encoded character
EncodedHtml == [root |-> "/proj/", name |-> "a%2Fb", ext |-> "html"]
NavURLs == {[inst |-> PHOENIX_INSTANCE_ID, path |-> p, popout |-> TRUE] :
                p \in {OldHtml, NotesMd, EncodedHtml}}

\* decodeURIComponent
DecodeURIComponent(url) ==
    IF url.path.name = "a%2Fb" THEN [url EXCEPT !.path.name = "a/b"] ELSE url

\* The URL given to the embedded server frame: the text that startsWith
\* tests, as a sequence of pieces, and the origin the browser loads it from
ServerURL(origin, text) == [origin |-> origin, text |-> text]
\* the frame of a page that did not set its src
BlankFrame == ServerURL("", <<>>)
\* LIVE_PREVIEW_STATIC_SERVER_BASE_URL, what the editor passes as
\* virtualServerURL when it opens a loader page
LIVE_PREVIEW_STATIC_SERVER_BASE_URL ==
    ServerURL("https://phcode-live.ts.r.appspot.com",
              <<"https://phcode-live.ts.r.appspot.com", "/">>)
\* values of the query parameter virtualServerURL: of allowlisted origins, of
\* another origin, and of hosts and ports that begin with an allowlisted one
ServerURLs ==
    {LIVE_PREVIEW_STATIC_SERVER_BASE_URL,
     ServerURL("https://phcode.live", <<"https://phcode.live", "/">>),
     ServerURL("https://evil.example", <<"https://evil.example", "/">>),
     ServerURL("https://phcode.live.evil.example",
               <<"https://phcode.live", ".evil.example", "/">>),
     ServerURL("http://localhost:80001", <<"http://localhost:8000", "1", "/">>)}

\* isTrustedURL
IsTrustedURL(url) ==
    /\ url.text # <<>>
    /\ \E trustedUrl \in TRUSTED_ORIGINS : StartsWith(url.text, <<trustedUrl>>)

\* The script state of a loader page after its onload handler
\* (navigateToInitialURL, setupNavigationWatcher) has run with the query
\* parameter initialProjectRoot and the session storage of its tab:
\* securityOk() runs at once when the storage holds the key of the root.
\* marked: the roots for which the trust button was pressed in this tab.
PageLoad(initialProjectRoot, session, marked) ==
    LET isAck == initialProjectRoot \in session
    IN  [securityAlertAcknowledged |-> isAck,
         previewURL |-> UndefinedURL,
         trustedProjects |-> IF isAck THEN {initialProjectRoot} ELSE {},
         currentProjectRoot |-> initialProjectRoot,
         previewFrame |-> IF isAck THEN DecodeURIComponent(UndefinedURL) ELSE AboutBlank,
         dialogShown |-> ~isAck,
         sessionStorage |-> session,
         initialProjectRoot |-> initialProjectRoot,
         marked |-> marked,
         serverFrame |-> LIVE_PREVIEW_STATIC_SERVER_BASE_URL]

\* isTrusted(root) on a loader page: trustedProjects[root]
IsTrusted(l, root) == root \in loader[l].trustedProjects

\* navigatorChannel.onmessage, case INITIAL_URL_NAVIGATE
InitialUrlNavigate(l, url, pageLoaderID) ==
    /\ loader' = [loader EXCEPT
          ![l].previewURL = url,
          ![l].previewFrame =
              IF ~loader[l].securityAlertAcknowledged \/ pageLoaderID # l
              THEN @ ELSE url]
    /\ UNCHANGED editorVars

\* REDIRECT_PAGE without the securityAlertAcknowledged test
RedirectPage_NoGate(l, url, force) ==
    /\ loader' = [loader EXCEPT
          ![l].previewURL = url,
          ![l].previewFrame = IF force \/ @ # url THEN url ELSE @]
    /\ UNCHANGED editorVars

\* navigatorChannel.onmessage, case REDIRECT_PAGE
RedirectPage(l, url, force) ==
    /\ loader' = [loader EXCEPT
          ![l].previewURL = url,
          ![l].previewFrame =
              IF ~loader[l].securityAlertAcknowledged THEN @
              ELSE IF force \/ @ # url THEN url ELSE @]
    /\ UNCHANGED editorVars

\* PROJECT_SWITCH that forgets the trusted roots when it disables the preview
ProjectSwitch_ClearsTrust(l, root) ==
    /\ loader' = [loader EXCEPT
          ![l].currentProjectRoot = root,
          ![l].dialogShown = ~(root \in loader[l].trustedProjects),
          ![l].previewFrame =
              IF root \in loader[l].trustedProjects
              THEN DecodeURIComponent(loader[l].previewURL) ELSE AboutBlank,
          ![l].securityAlertAcknowledged = (root \in loader[l].trustedProjects),
          ![l].trustedProjects = IF root \in @ THEN @ ELSE {}]
    /\ UNCHANGED editorVars

\* navigatorChannel.onmessage, case PROJECT_SWITCH
ProjectSwitch(l, root) ==
    /\ loader' = [loader EXCEPT
          ![l].currentProjectRoot = root,
          ![l].dialogShown = ~(root \in loader[l].trustedProjects),
          ![l].previewFrame =
              IF root \in loader[l].trustedProjects
              THEN DecodeURIComponent(loader[l].previewURL) ELSE AboutBlank,
          ![l].securityAlertAcknowledged = (root \in loader[l].trustedProjects)]
    /\ UNCHANGED editorVars

\* securityOk that records the trust in the session storage only
SecurityOk_NoRecord(l) ==
    [loader EXCEPT
          ![l].dialogShown = FALSE,
          ![l].previewFrame = DecodeURIComponent(loader[l].previewURL),
          ![l].securityAlertAcknowledged = TRUE,
          ![l].sessionStorage = @ \cup {loader[l].currentProjectRoot}]

\* securityOk
SecurityOk(l) ==
    [loader EXCEPT
          ![l].dialogShown = FALSE,
          ![l].previewFrame = DecodeURIComponent(loader[l].previewURL),
          ![l].securityAlertAcknowledged = TRUE,
          ![l].trustedProjects = @ \cup {loader[l].currentProjectRoot},
          ![l].sessionStorage = @ \cup {loader[l].currentProjectRoot}]

\* the click listener of okButton; the button is part of the dialog
OkButtonClick(l) ==
    /\ loader[l].dialogShown
    /\ loader' = [SecurityOk(l) EXCEPT ![l].marked = @ \cup {loader[l].currentProjectRoot}]
    /\ UNCHANGED <<coordinatorVars, resolverVars, protocolVars>>

\* the user reloads the loader page: the script state is built anew from the
\* same query string, the session storage of the tab is kept; the page
\* listens on a new channel object and asks for the initial URL
Reload(l) ==
    /\ Len(initialUrlRequests) < MaxMessages
    /\ loader' = [loader EXCEPT ![l] =
          PageLoad(loader[l].initialProjectRoot, loader[l].sessionStorage, loader[l].marked)]
    /\ received' = MapSet(received, l, Len(navigatorChannel))
    /\ initialUrlRequests' = Append(initialUrlRequests, l)
    /\ UNCHANGED editorFrame

\* ------------------------------------------------------------------------
\* The registry of tracked tabs (BrowserStaticServer.js)
\* ------------------------------------------------------------------------
\* the time the clock is let run to; times are in units of 1000 ms
MaxTime == 14

\* TAB_HEARTBEAT_TIMEOUT = 10000 ms and the period of the sweep timer
TAB_HEARTBEAT_TIMEOUT == 10
SweepPeriod == 1
\* the period of the heartbeat timer of a loader page, and of the
\* live preview page it hosts
LoaderHeartbeatPeriod == 3
ContentHeartbeatPeriod == 1

\* clientIDs of live preview pages; the tabs the registry may track
Clients == {"T1"}
TabIDs == Clients \cup Loaders

\* a record of livePreviewTabs; navigationTab is left unset (falsy) by the
\* TAB_ONLINE handlers
TabInfo(lastSeen, URL, navigationTab) ==
    [lastSeen |-> lastSeen, URL |-> URL, navigationTab |-> navigationTab]

\* hasActiveLivePreviews counting the records of preview pages only
HasActiveLivePreviews_ContentTabsOnly ==
    \E tab \in DOMAIN livePreviewTabs : ~livePreviewTabs[tab].navigationTab

\* hasActiveLivePreviews: livePreviewTabs.size > 0
HasActiveLivePreviews == DOMAIN livePreviewTabs # {}

\* the heartbeat handler that does not mark the record of a loader page
TabLoaderOnline_NoFlag(pageLoaderID) ==
    /\ livePreviewTabs' = MapSet(livePreviewTabs, pageLoaderID,
                                 TabInfo(now, UndefinedURL, FALSE))
    /\ UNCHANGED <<now, swept, closed, navigatorVars, resolverVars, protocolVars,
                   loader>>

\* navigatorChannel.onmessage of the editor, case TAB_LOADER_ONLINE; the
\* message of the loader page carries its URL as url, the handler reads URL
TabLoaderOnline(pageLoaderID) ==
    /\ livePreviewTabs' = MapSet(livePreviewTabs, pageLoaderID,
                                 TabInfo(now, UndefinedURL, TRUE))
    /\ UNCHANGED <<now, swept, closed, navigatorVars, resolverVars, protocolVars,
                   loader>>

\* the TAB_ONLINE handler recording when the tab sent its previous heartbeat
\* instead of when this one was received
TabOnline_SentTime(clientID, URL) ==
    /\ livePreviewTabs' = MapSet(livePreviewTabs, clientID,
                                 TabInfo(beat[clientID], URL, FALSE))
    /\ UNCHANGED <<now, swept, closed, navigatorVars, resolverVars, protocolVars,
                   loader>>

\* livePreviewChannel.onmessage case EVENT_TAB_ONLINE and
\* exports.on(EVENT_TAB_ONLINE): the same body on both transports
TabOnline(clientID, URL) ==
    /\ livePreviewTabs' = MapSet(livePreviewTabs, clientID,
                                 TabInfo(now, URL, FALSE))
    /\ UNCHANGED <<now, swept, closed, navigatorVars, resolverVars, protocolVars,
                   loader>>

\* timeDiff >= TAB_HEARTBEAT_TIMEOUT
Expired_AtTimeout(tabInfo, endTime) ==
    endTime - tabInfo.lastSeen >= TAB_HEARTBEAT_TIMEOUT

\* a timeout of one heartbeat period of the loader page
Expired_AfterOnePeriod(tabInfo, endTime) ==
    endTime - tabInfo.lastSeen > LoaderHeartbeatPeriod

\* timeDiff > TAB_HEARTBEAT_TIMEOUT
Expired(tabInfo, endTime) ==
    endTime - tabInfo.lastSeen > TAB_HEARTBEAT_TIMEOUT

\* the tabs the sweep at endTime deletes
ExpiredTabs(endTime) ==
    {tab \in DOMAIN livePreviewTabs : Expired(livePreviewTabs[tab], endTime)}

\* a sweep that leaves its loop at the first tab it deletes
Sweep_StopsAtFirst ==
    /\ now - swept >= SweepPeriod
    /\ swept' = now
    /\ LET expired == ExpiredTabs(now)
           first == IF expired = {} THEN {}
                    ELSE {CHOOSE tab \in expired : TRUE}
       IN  /\ livePreviewTabs' = MapDelete(livePreviewTabs, first)
           /\ closed' = [tab \in TabIDs |->
                  IF tab \in first /\ ~livePreviewTabs[tab].navigationTab
                  THEN closed[tab] + 1 ELSE closed[tab]]
    /\ UNCHANGED <<now, beat, navigatorVars, resolverVars, protocolVars, routerVars,
                   previewVars, loader>>

\* the callback of the sweep timer of _startHeartBeatListeners: every tab
\* not seen for longer than the timeout is deleted, and BROWSER_CLOSE is
\* triggered for it unless its record is that of a loader page
Sweep ==
    /\ now - swept >= SweepPeriod
    /\ swept' = now
    /\ LET expired == ExpiredTabs(now)
       IN  /\ livePreviewTabs' = MapDelete(livePreviewTabs, expired)
           /\ closed' = [tab \in TabIDs |->
                  IF tab \in expired /\ ~livePreviewTabs[tab].navigationTab
                  THEN closed[tab] + 1 ELSE closed[tab]]
    /\ UNCHANGED <<now, beat, navigatorVars, resolverVars, protocolVars, routerVars,
                   previewVars, loader>>

\* the period of the heartbeat timer of a tab
HeartbeatPeriod(tab) ==
    IF tab \in Loaders THEN LoaderHeartbeatPeriod ELSE ContentHeartbeatPeriod

\* the URL a live preview page reports in its heartbeat
TabURL == [inst |-> PHOENIX_INSTANCE_ID, path |-> OldHtml, popout |-> TRUE]

\* a tab is opened (its heartbeat timer starts) or closed (the timer ends)
OpenTab(tab) ==
    /\ tab \notin DOMAIN beat
    /\ beat' = MapSet(beat, tab, now)
    /\ UNCHANGED <<livePreviewTabs, now, swept, closed, navigatorVars,
                   resolverVars, protocolVars, routerVars,
                   previewVars, loader>>

CloseTab(tab) ==
    /\ tab \in DOMAIN beat
    /\ beat' = MapDelete(beat, {tab})
    /\ UNCHANGED <<livePreviewTabs, now, swept, closed, navigatorVars,
                   resolverVars, protocolVars, routerVars,
                   previewVars, loader>>

\* the heartbeat timer of an open tab fires and the editor receives the
\* message: TAB_LOADER_ONLINE of a loader page, TAB_ONLINE of a preview page
Heartbeat(tab) ==
    /\ tab \in DOMAIN beat
    /\ now - beat[tab] >= HeartbeatPeriod(tab)
    /\ beat' = [beat EXCEPT ![tab] = now]
    /\ IF tab \in Loaders THEN TabLoaderOnline(tab) ELSE TabOnline(tab, TabURL)
    /\ UNCHANGED <<routerVars, previewVars>>

\* time passes once every timer that is due has fired
Tick ==
    /\ now < MaxTime
    /\ now - swept < SweepPeriod
    /\ \A tab \in DOMAIN beat : now - beat[tab] < HeartbeatPeriod(tab)
    /\ now' = now + 1
    /\ UNCHANGED <<livePreviewTabs, swept, beat, closed, navigatorVars,
                   resolverVars, protocolVars, routerVars,
                   previewVars, loader>>

\* what getPreviewDetails reads besides the current file and the project
\* root: _isLivePreviewSupported(), the custom server of LivePreviewSettings
\* ("none": not in use, "serves": it serves the current file, "excludes":
\* in use but the current file is outside its root), and the file of the
\* live document of LiveDevelopment with what its isRelated answers for the
\* current file
Settings(supported, customServer, liveFile, related) ==
    [supported |-> supported, customServer |-> customServer,
     liveFile |-> liveFile, related |-> related]
NoSettings == Settings(TRUE, "none", NoPath, FALSE)

\* the promise of getPreviewDetails: not called yet ("none"), or resolved
\* with {URL, fullPath, isNoPreview, isCustomServer}, or rejected
Details(kind, URL, fullPath, isNoPreview, isCustomServer) ==
    [kind |-> kind, URL |-> URL, fullPath |-> fullPath,
     isNoPreview |-> isNoPreview, isCustomServer |-> isCustomServer]
NoDetails == Details("none", NoURL, NoPath, FALSE, FALSE)

\* no project load is pending
NoLoad == [root |-> "", projectRootChanged |-> FALSE, pending |-> FALSE]

\* the editor after init(): nothing tracked, the timers just started, no
\* preview URL set, nothing posted, no loader page listening
CoordinatorIdle ==
    /\ livePreviewTabs = <<>>
    /\ now = 0
    /\ swept = 0
    /\ beat = <<>>
    /\ closed = [tab \in TabIDs |-> 0]
    /\ currentPopoutURL = NoURL
    /\ navigatorChannel = <<>>
    /\ received = <<>>
    /\ initialUrlRequests = <<>>
    /\ loadingProject = NoLoad
    /\ routed = <<>>
    /\ triggered = <<>>
    /\ reported = 0
    /\ forwarded = [l \in Loaders |-> <<>>]
    /\ heard = [l \in Loaders |-> 0]
    /\ previewSettings = NoSettings
    /\ previewDetails = NoDetails

\* ------------------------------------------------------------------------
\* The navigation channel, editor side (BrowserStaticServer.js)
\* ------------------------------------------------------------------------
\* a message the editor posts on navigatorChannel
NavMessage(type, URL, force, pageLoaderID, root) ==
    [type |-> type, URL |-> URL, force |-> force, pageLoaderID |-> pageLoaderID,
     projectRoot |-> root]

\* getNoPreviewURL: the placeholder page for "nothing to preview"
NoPreviewURL == [inst |-> <<>>,
                 path |-> [root |-> "", name |-> "no-preview", ext |-> "html"],
                 popout |-> FALSE]

\* the URL the editor previews for a current file: the placeholder when
\* there is none, else the file under the base URL of this instance
PreviewURL(file) ==
    IF file = NoPath THEN NoPreviewURL
    ELSE [inst |-> PHOENIX_INSTANCE_ID, path |-> file, popout |-> TRUE]

\* redirectAllTabs broadcasting without recording the URL
RedirectAllTabs_BroadcastOnly(newURL, force) ==
    /\ Len(navigatorChannel) < MaxMessages
    /\ navigatorChannel' = Append(navigatorChannel,
          NavMessage("REDIRECT_PAGE", newURL, force, NoLoader, ""))
    /\ UNCHANGED <<currentPopoutURL, received, initialUrlRequests, loadingProject,
                   registryVars, resolverVars, protocolVars, routerVars,
                   previewVars, loader>>

\* redirectAllTabs
RedirectAllTabs(newURL, force) ==
    /\ Len(navigatorChannel) < MaxMessages
    /\ currentPopoutURL' = newURL
    /\ navigatorChannel' = Append(navigatorChannel,
          NavMessage("REDIRECT_PAGE", newURL, force, NoLoader, ""))
    /\ UNCHANGED <<received, initialUrlRequests, loadingProject, registryVars,
                   resolverVars, protocolVars, routerVars,
                   previewVars, loader>>

\* _sendInitialURL without the test of currentPopoutURL
SendInitialURL_AlwaysPosts ==
    /\ initialUrlRequests # <<>>
    /\ Len(navigatorChannel) < MaxMessages
    /\ initialUrlRequests' = Tail(initialUrlRequests)
    /\ navigatorChannel' =
          Append(navigatorChannel,
                 NavMessage("INITIAL_URL_NAVIGATE", currentPopoutURL, FALSE,
                            Head(initialUrlRequests), ""))
    /\ UNCHANGED <<currentPopoutURL, received, loadingProject, registryVars,
                   resolverVars, protocolVars, routerVars,
                   previewVars, loader>>

\* navigatorChannel.onmessage of the editor, case GET_INITIAL_URL, and
\* _sendInitialURL: nothing is posted while no preview URL is set
SendInitialURL ==
    /\ initialUrlRequests # <<>>
    /\ currentPopoutURL # NoURL => Len(navigatorChannel) < MaxMessages
    /\ initialUrlRequests' = Tail(initialUrlRequests)
    /\ navigatorChannel' =
          IF currentPopoutURL = NoURL THEN navigatorChannel
          ELSE Append(navigatorChannel,
                   NavMessage("INITIAL_URL_NAVIGATE", currentPopoutURL, FALSE,
                              Head(initialUrlRequests), ""))
    /\ UNCHANGED <<currentPopoutURL, received, loadingProject, registryVars,
                   resolverVars, protocolVars, routerVars,
                   previewVars, loader>>

\* the handler of EVENT_PROJECT_OPEN posting nothing
ProjectOpened_NoBroadcast(root) == navigatorChannel

\* _projectOpened: the channel after the handler of EVENT_PROJECT_OPEN ran
ProjectOpened(root) ==
    Append(navigatorChannel, NavMessage("PROJECT_SWITCH", NoURL, FALSE, NoLoader, root))

\* ProjectModel.setProjectRoot: the root the model holds once it is called;
\* its promise resolves
ModelSetProjectRoot(rootEntry) == rootEntry

\* _loadProject up to the call of _setProjectRoot in _loadExistingProject:
\* nothing happens for the root already loaded; else every file is closed,
\* projectRootChanged is computed and the root is set
LoadProject(rootPath) ==
    /\ ~loadingProject.pending
    /\ projectRoot # rootPath
    /\ currentFile' = NoPath
    /\ loadingProject' = [root |-> rootPath,
                          projectRootChanged |-> (projectRoot = "" \/ projectRoot # rootPath),
                          pending |-> TRUE]
    /\ projectRoot' = ModelSetProjectRoot(rootPath)
    /\ UNCHANGED <<staticServerInstance, virtualServingDocuments, liveDocuments,
                   openDocuments, disk, currentPopoutURL, navigatorChannel, received,
                   initialUrlRequests, registryVars, protocolVars, routerVars,
                   previewVars, loader>>

\* the continuation of _setProjectRoot in _loadExistingProject: a load that
\* changed the root triggers EVENT_PROJECT_OPEN with the project root
LoadExistingProjectDone ==
    /\ loadingProject.pending
    /\ Len(navigatorChannel) < MaxMessages
    /\ loadingProject' = NoLoad
    /\ navigatorChannel' = IF loadingProject.projectRootChanged
                           THEN ProjectOpened(projectRoot) ELSE navigatorChannel
    /\ UNCHANGED <<currentPopoutURL, received, initialUrlRequests, registryVars,
                   resolverVars, protocolVars, routerVars,
                   previewVars, loader>>

\* a loader page is opened for the current project: its script state is set
\* up, it listens on the navigation channel from now on and asks for the
\* initial URL
JoinPage(l) ==
    /\ l \notin DOMAIN received
    /\ Len(initialUrlRequests) < MaxMessages
    /\ loader' = [loader EXCEPT ![l] = PageLoad(projectRoot, {}, {})]
    /\ received' = MapSet(received, l, Len(navigatorChannel))
    /\ initialUrlRequests' = Append(initialUrlRequests, l)
    /\ UNCHANGED editorFrame

\* INITIAL_URL_NAVIGATE navigating the frame whatever page it is addressed to
Deliver_ToAnyPage(l) ==
    /\ l \in DOMAIN received
    /\ received[l] < Len(navigatorChannel)
    /\ received' = [received EXCEPT ![l] = @ + 1]
    /\ LET data == navigatorChannel[received[l] + 1]
       IN  CASE data.type = "INITIAL_URL_NAVIGATE" ->
                  InitialUrlNavigate(l, data.URL, l)
             [] data.type = "REDIRECT_PAGE" -> RedirectPage(l, data.URL, data.force)
             [] data.type = "PROJECT_SWITCH" -> ProjectSwitch(l, data.projectRoot)

\* navigatorChannel.onmessage of the loader page l for the next message of
\* the channel, which delivers in the order posted
Deliver(l) ==
    /\ l \in DOMAIN received
    /\ received[l] < Len(navigatorChannel)
    /\ received' = [received EXCEPT ![l] = @ + 1]
    /\ LET data == navigatorChannel[received[l] + 1]
       IN  CASE data.type = "INITIAL_URL_NAVIGATE" ->
                  InitialUrlNavigate(l, data.URL, data.pageLoaderID)
             [] data.type = "REDIRECT_PAGE" -> RedirectPage(l, data.URL, data.force)
             [] data.type = "PROJECT_SWITCH" -> ProjectSwitch(l, data.projectRoot)

\* ------------------------------------------------------------------------
\* Resolution of one request in any content state
\* ------------------------------------------------------------------------
\* maps with an entry for at most the path p
OnlyAt(p, v) == [q \in Paths |-> IF q = p THEN v ELSE Undefined]
OnlyFor(self, m) == [i \in Instances |-> IF i = self THEN m ELSE OnlyAt(NoPath, Undefined)]

ResolveInit ==
    /\ CoordinatorIdle
    /\ staticServerInstance \in {NoInstance, "A"}
    /\ projectRoot = "/proj/"
    /\ currentFile \in Paths \cup {NoPath}
    /\ \E p \in Paths :
        /\ \E v \in {Undefined} \cup {Text(t) : t \in OverlayTexts} :
               virtualServingDocuments = OnlyFor("A", OnlyAt(p, v))
        /\ \E l \in {Undefined} \cup
               (IF IsWithinProject(p) /\ p.ext = "html"
                THEN {LiveBody(TRUE), LiveBody(FALSE)} ELSE {}) :
               liveDocuments = OnlyFor("A", OnlyAt(p, l))
        /\ \E d \in {Undefined} \cup {Text(t) : t \in OpenTexts} :
               openDocuments = OnlyAt(p, d)
        /\ \E f \in {Undefined} \cup {Text(t) : t \in DiskTexts} :
               disk = OnlyAt(p, f)
    /\ requests = <<>>
    /\ sent = <<>>
    /\ loader = [l \in Loaders |-> PageLoad("/proj/", {}, {})]

ResolveNext ==
    \/ \E p \in Paths, u \in URLs, id \in InstanceIDs :
          /\ requests = <<>>
          /\ u.path = p
          /\ EmbeddedGetContent(p, u, id)
    \/ \E i \in 1..MaxRequests : ReadFileDone(i)
    \/ \E i \in 1..MaxRequests : GetDocumentDone(i)

ResolveSpec == ResolveInit /\ [][ResolveNext]_vars

\* ------------------------------------------------------------------------
\* One loader page receiving navigation messages in any order
\* ------------------------------------------------------------------------
LoaderInit ==
    /\ CoordinatorIdle
    /\ staticServerInstance = NoInstance
    /\ projectRoot = "/proj/"
    /\ currentFile = NoPath
    /\ virtualServingDocuments = OnlyFor("A", OnlyAt(NoPath, Undefined))
    /\ liveDocuments = OnlyFor("A", OnlyAt(NoPath, Undefined))
    /\ openDocuments = OnlyAt(NoPath, Undefined)
    /\ disk = OnlyAt(NoPath, Undefined)
    /\ requests = <<>>
    /\ sent = <<>>
    /\ \E r \in Roots :
          loader = [l \in Loaders |-> PageLoad(r, {}, {})]

LoaderNext ==
    \/ \E u \in NavURLs, t \in Loaders :
          InitialUrlNavigate("L1", u, t) /\ UNCHANGED received
    \/ \E u \in NavURLs, force \in BOOLEAN :
          RedirectPage("L1", u, force) /\ UNCHANGED received
    \/ \E r \in Roots : ProjectSwitch("L1", r) /\ UNCHANGED received
    \/ OkButtonClick("L1")
    \/ Reload("L1")
    \/ SendInitialURL

LoaderSpec == LoaderInit /\ [][LoaderNext]_vars

\* ------------------------------------------------------------------------
\* The editor answering the GET_CONTENT messages of several surfaces
\* ------------------------------------------------------------------------
\* the URL of a path under the base URL of the editor instance id
UrlOf(id, p) == [inst |-> id, path |-> p, popout |-> FALSE]

Init ==
    /\ CoordinatorIdle
    /\ staticServerInstance = NoInstance
    /\ projectRoot = "/proj/"
    /\ currentFile = NoPath
    /\ virtualServingDocuments = OnlyFor("A", OnlyAt(NoPath, Undefined))
    /\ liveDocuments = OnlyFor("A", OnlyAt(OldHtml, LiveBody(TRUE)))
    /\ openDocuments = OnlyAt(NoPath, Undefined)
    /\ disk = [p \in Paths |->
                 CASE p = OldHtml -> Text("")
                   [] p = NotesMd -> Text("BOM# Hi")
                   [] OTHER -> Undefined]
    /\ requests = <<>>
    /\ sent = <<>>
    /\ loader = [l \in Loaders |-> PageLoad("/proj/", {}, {})]

\* the steps of the editor and of the surfaces that send it messages
ProtocolNext ==
    \/ \E self \in Instances : StartServer(self)
    \/ \E self \in Instances : StopServer(self)
    \/ \E p \in {NoPath, ReadmeMd} : SetCurrentFile(p)
    \/ \E p \in {OldHtml, NewHtml, ReadmeMd}, o \in Origins, id \in InstanceIDs :
          /\ (o \in TRUSTED_ORIGINS /\ id = PHOENIX_INSTANCE_ID) \/ p = OldHtml
          /\ WindowMessage("L1", o, p, UrlOf(id, p))
    \/ \E id \in InstanceIDs :
          EmbeddedGetContent(NewHtml, UrlOf(PHOENIX_INSTANCE_ID, NewHtml), id)
    \/ \E i \in 1..MaxRequests : RelayGetContent(i)
    \/ \E i \in 1..MaxRequests : ReadFileDone(i)
    \/ \E i \in 1..MaxRequests : GetDocumentDone(i)

\* ... and the user of the loader page that relays the messages
Next ==
    \/ ProtocolNext
    \/ OkButtonClick("L1")

Spec == Init /\ [][Next]_vars

\* fs.readFile and getDocumentForPath always call back, and the relay channel
\* delivers every message
LiveSpec ==
    /\ Init /\ [][ProtocolNext]_vars
    /\ \A i \in 1..MaxRequests :
          /\ WF_vars(RelayGetContent(i))
          /\ WF_vars(ReadFileDone(i))
          /\ WF_vars(GetDocumentDone(i))

\* ------------------------------------------------------------------------
\* The registry under heartbeats, sweeps and the passing of time
\* ------------------------------------------------------------------------
RegistryInit ==
    /\ CoordinatorIdle
    /\ staticServerInstance = NoInstance
    /\ projectRoot = "/proj/"
    /\ currentFile = NoPath
    /\ virtualServingDocuments = OnlyFor("A", OnlyAt(NoPath, Undefined))
    /\ liveDocuments = OnlyFor("A", OnlyAt(NoPath, Undefined))
    /\ openDocuments = OnlyAt(NoPath, Undefined)
    /\ disk = OnlyAt(NoPath, Undefined)
    /\ requests = <<>>
    /\ sent = <<>>
    /\ loader = [l \in Loaders |-> PageLoad("/proj/", {}, {})]

RegistryNext ==
    \/ \E tab \in {"T1", "L1"} : OpenTab(tab)
    \/ \E tab \in {"T1", "L1"} : CloseTab(tab)
    \/ \E tab \in {"T1", "L1"} : Heartbeat(tab)
    \/ Sweep
    \/ Tick

RegistrySpec == RegistryInit /\ [][RegistryNext]_vars

\* ------------------------------------------------------------------------
\* The editor posting on the navigation channel
\* ------------------------------------------------------------------------
\* no project is loaded yet (startup) or one is; no file is current and no
\* loader page is open
NavInit ==
    /\ CoordinatorIdle
    /\ staticServerInstance = NoInstance
    /\ projectRoot \in {"", "/proj/"}
    /\ currentFile = NoPath
    /\ virtualServingDocuments = OnlyFor("A", OnlyAt(NoPath, Undefined))
    /\ liveDocuments = OnlyFor("A", OnlyAt(NoPath, Undefined))
    /\ openDocuments = OnlyAt(NoPath, Undefined)
    /\ disk = OnlyAt(NoPath, Undefined)
    /\ requests = <<>>
    /\ sent = <<>>
    /\ loader = [l \in Loaders |-> PageLoad(projectRoot, {}, {})]

\* a file is selected only in a loaded project, and the URL broadcast is
\* the preview URL of the current file
NavNext ==
    \/ \E root \in Roots : LoadProject(root)
    \/ LoadExistingProjectDone
    \/ \E file \in {OldHtml, NotesMd} :
          /\ projectRoot # "" /\ ~loadingProject.pending
          /\ SetCurrentFile(file)
    \/ \E force \in BOOLEAN : RedirectAllTabs(PreviewURL(currentFile), force)
    \/ JoinPage("L1")
    \/ "L1" \in DOMAIN received /\ Reload("L1")
    \/ SendInitialURL

NavSpec == NavInit /\ [][NavNext]_vars

\* ------------------------------------------------------------------------
\* Loader pages joining while the editor previews the files of a project
\* ------------------------------------------------------------------------
JoinInit ==
    /\ CoordinatorIdle
    /\ staticServerInstance = NoInstance
    /\ projectRoot = "/proj/"
    /\ currentFile = NoPath
    /\ virtualServingDocuments = OnlyFor("A", OnlyAt(NoPath, Undefined))
    /\ liveDocuments = OnlyFor("A", OnlyAt(NoPath, Undefined))
    /\ openDocuments = OnlyAt(NoPath, Undefined)
    /\ disk = OnlyAt(NoPath, Undefined)
    /\ requests = <<>>
    /\ sent = <<>>
    /\ loader = [l \in Loaders |-> PageLoad("/proj/", {}, {})]

JoinNext ==
    \/ \E file \in {OldHtml, NewHtml} : RedirectAllTabs(PreviewURL(file), FALSE)
    \/ \E l \in Loaders : JoinPage(l)
    \/ SendInitialURL
    \/ \E l \in Loaders : Deliver(l)
    \/ \E l \in Loaders : OkButtonClick(l)

JoinSpec == JoinInit /\ [][JoinNext]_vars

\* ------------------------------------------------------------------------
\* Claims on content resolution (ResolveSpec)
\* ------------------------------------------------------------------------
\* C1: a path that does not lie within the project root is always answered
\* with null contents, whatever the overlay, the documents, the disk and the
\* current file are.
C1_OutsideProjectIsNull ==
    \A i \in DOMAIN sent :
        ~IsWithinProject(sent[i].path) => sent[i].contents = Null

\* C2: a path inside the project root that has a virtual-overlay entry is
\* answered with exactly the overlay content, also when the overlay text is
\* empty and when the path is the current markdown file.
C2_OverlayWins ==
    \A i \in DOMAIN sent :
        LET overlay == virtualServingDocuments[staticServerInstance][sent[i].path]
        IN  (IsWithinProject(sent[i].path) /\ overlay # Undefined)
                => sent[i].contents = overlay

\* C3 (as stated): a popped-out request for a path whose stored live body has
\* lost the remote script, made while another file is the current one, is
\* answered with a redirect page that targets the now-current file.
C3_RedirectsToCurrentURL ==
    \A i \in DOMAIN sent :
        LET req == requests[sent[i].requestID]
            live == liveDocuments[staticServerInstance][req.path]
        IN  (/\ req.url.popout
             /\ live # Undefined /\ ~live.script
             /\ IsWithinProject(req.path)
             /\ ~Truthy(virtualServingDocuments[staticServerInstance][req.path])
             /\ currentFile \notin {NoPath, req.path})
                => /\ sent[i].contents.kind = "redirect"
                   /\ sent[i].contents.target.path = currentFile

\* C3 (amended): that request is answered with a redirect page, not with the
\* stale body, and the page targets the URL of the request itself with the
\* phcodeLivePreview flag removed.
C3_RedirectsToRequestURL ==
    \A i \in DOMAIN sent :
        LET req == requests[sent[i].requestID]
            live == liveDocuments[staticServerInstance][req.path]
        IN  (/\ req.url.popout
             /\ live # Undefined /\ ~live.script
             /\ IsWithinProject(req.path)
             /\ ~Truthy(virtualServingDocuments[staticServerInstance][req.path])
             /\ ~(IsMarkdownFile(req.path) /\ currentFile = req.path))
                => /\ sent[i].contents.kind = "redirect"
                   /\ sent[i].contents # live
                   /\ sent[i].contents.target =
                          [inst |-> req.url.inst, path |-> req.path, popout |-> FALSE]

C3_Witness ==
    \E i \in DOMAIN sent :
        /\ requests[sent[i].requestID].url.popout
        /\ requests[sent[i].requestID].path = OldHtml
        /\ currentFile = NewHtml
        /\ liveDocuments[staticServerInstance][OldHtml] = LiveBody(FALSE)
        /\ sent[i].contents.kind = "redirect"

\* ------------------------------------------------------------------------
\* Claims on the trust gate of a loader page (LoaderSpec)
\* ------------------------------------------------------------------------
\* C5: while a loader page is Unacknowledged its preview frame shows
\* about:blank, whatever navigation messages it has received; the URL it
\* received is only remembered in previewURL.
C5_UnacknowledgedShowsBlank ==
    \A l \in Loaders :
        ~loader[l].securityAlertAcknowledged => loader[l].previewFrame = AboutBlank

C5_Witness ==
    \E l \in Loaders :
        /\ ~loader[l].securityAlertAcknowledged
        /\ loader[l].previewURL \in NavURLs
        /\ loader[l].currentProjectRoot # loader[l].initialProjectRoot
        /\ loader[l].previewFrame = AboutBlank

\* C6: a root is trusted on a loader page only if the trust button was
\* pressed for it before, and pressing the trust button makes the current
\* root trusted.
C6_TrustedIffMarked ==
    /\ [](\A l \in Loaders, r \in Roots : IsTrusted(l, r) => r \in loader[l].marked)
    /\ [][\A l \in Loaders :
            loader'[l].marked # loader[l].marked
                => /\ loader[l].currentProjectRoot \in loader'[l].marked
                   /\ loader[l].currentProjectRoot \in loader'[l].trustedProjects]_vars

C6_Witness ==
    \E l \in Loaders, r1, r2 \in Roots :
        /\ IsTrusted(l, r1) /\ r1 \in loader[l].marked
        /\ ~IsTrusted(l, r2) /\ r2 \notin loader[l].marked

\* C7: a PROJECT_SWITCH leaves the trust record of every root other than the
\* new one as it was.
C7_SwitchKeepsOtherTrust ==
    [][\A l \in Loaders, newRoot \in Roots :
          ProjectSwitch(l, newRoot) =>
              \A otherRoot \in Roots \ {newRoot} :
                  (otherRoot \in loader'[l].trustedProjects) = IsTrusted(l, otherRoot)]_vars

C7_Witness ==
    \E l \in Loaders, otherRoot \in Roots :
        /\ IsTrusted(l, otherRoot)
        /\ loader[l].currentProjectRoot # otherRoot
        /\ ~loader[l].securityAlertAcknowledged

\* C8: once the trust button was pressed for a root in this tab, the loader
\* page is Acknowledged whenever that root is the current one, also after
\* project switches and reloads of the page.
C8_TrustIsMonotonic ==
    \A l \in Loaders :
        loader[l].currentProjectRoot \in loader[l].marked
            => loader[l].securityAlertAcknowledged

\* ------------------------------------------------------------------------
\* Claims on the request/response protocol (Spec, LiveSpec)
\* ------------------------------------------------------------------------
\* C4: a GET_CONTENT that reaches a loader page from an origin outside the
\* allowlist is discarded there: it is never put on the relay channel, never
\* handled by the editor (no content is read) and never answered, whether the
\* page is acknowledged or not.
C4_UntrustedOriginDiscarded ==
    \A i \in DOMAIN requests :
        requests[i].origin \notin TRUSTED_ORIGINS
            => /\ requests[i].state = "discarded"
               /\ \A k \in DOMAIN sent : sent[k].requestID # i

C4_Witness ==
    \E i, j \in DOMAIN requests :
        /\ requests[i].origin = "https://evil.example"
        /\ requests[i].path = OldHtml /\ UrlStartsWithBaseUrl(requests[i].url)
        /\ requests[i].state = "discarded"
        /\ i < j
        /\ requests[j].origin \in TRUSTED_ORIGINS
        /\ requests[j].path = OldHtml
        /\ requests[j].state = "answered"
        /\ loader[requests[i].pageLoaderID].securityAlertAcknowledged

\* C9: every REQUEST_RESPONSE the editor posts carries the requestID of a
\* GET_CONTENT the editor handled and the path of that request, no request is
\* answered twice, also when the responses are posted out of order.
C9_ResponseMatchesRequest ==
    /\ \A k \in DOMAIN sent :
          /\ sent[k].requestID \in DOMAIN requests
          /\ requests[sent[k].requestID].state = "answered"
          /\ sent[k].path = requests[sent[k].requestID].path
    /\ \A k1, k2 \in DOMAIN sent :
          sent[k1].requestID = sent[k2].requestID => k1 = k2

C9_Witness ==
    \E k1, k2 \in DOMAIN sent :
        /\ k1 < k2
        /\ sent[k1].requestID > sent[k2].requestID
        /\ sent[k1].path # sent[k2].path

\* C10 (as stated): no GET_CONTENT the editor received is left without a
\* response.
C10_EveryRequestAnswered ==
    \A i \in DOMAIN requests : requests[i].state # "rejected"

\* C10 (amended): a GET_CONTENT the editor handles while a server is started,
\* with a url under the base URL of this instance and not for the current
\* markdown file, is answered at once or waits for the disk read; a request
\* that waits for the disk read is eventually answered, with null contents
\* when the read fails; every answered request has its REQUEST_RESPONSE.
C10_AcceptedRequestAnswered ==
    /\ [][\A i \in DOMAIN requests' :
            (/\ i \notin DOMAIN requests \/ requests[i].state = "relayed"
             /\ requests'[i].state \notin {"relayed", "discarded", "ignored"}
             /\ staticServerInstance # NoInstance
             /\ UrlStartsWithBaseUrl(requests'[i].url)
             /\ ~(IsMarkdownFile(requests'[i].path) /\ currentFile = requests'[i].path))
                => requests'[i].state \in {"answered", "readFile"}]_vars
    /\ \A i \in 1..MaxRequests :
          (i \in DOMAIN requests /\ requests[i].state = "readFile")
              ~> (\E k \in DOMAIN sent :
                     /\ sent[k].requestID = i
                     /\ disk[requests[i].path] = Undefined => sent[k].contents = Null)
    /\ [](\A i \in DOMAIN requests :
             requests[i].state = "answered"
                 => \E k \in DOMAIN sent : sent[k].requestID = i)

C10_Witness ==
    \E k \in DOMAIN sent :
        /\ requests[sent[k].requestID].path = NewHtml
        /\ sent[k].contents = Null

\* ------------------------------------------------------------------------
\* Claims on the content tiers (ResolveSpec)
\* ------------------------------------------------------------------------
\* a request the editor passed to getContent while a server is started, with
\* a url under the base URL of this instance, for a path within the project
\* that has no overlay entry
ReachesTiers(req) ==
    /\ req.state # "ignored"
    /\ staticServerInstance # NoInstance
    /\ UrlStartsWithBaseUrl(req.url)
    /\ IsWithinProject(req.path)
    /\ virtualServingDocuments[staticServerInstance][req.path] = Undefined

\* the path has neither a live document nor an open document
OnlyOnDisk(req) ==
    /\ liveDocuments[staticServerInstance][req.path] = Undefined
    /\ openDocuments[req.path] = Undefined

\* the response posted for the request i, if any
ResponsesTo(i) == {k \in DOMAIN sent : sent[k].requestID = i}

\* C11 (as stated): a path within the project without overlay, live document
\* and open document whose disk read fails is never rejected, and its
\* response carries null contents.
C11_FailedReadResolvesNull ==
    \A i \in DOMAIN requests :
        (ReachesTiers(requests[i]) /\ OnlyOnDisk(requests[i])
            /\ disk[requests[i].path] = Undefined)
            => /\ requests[i].state # "rejected"
               /\ \A k \in ResponsesTo(i) : sent[k].contents = Null

\* C11 (amended): the same, for a path that is not the current markdown file
\* (whose failing document load rejects); a successfully read empty file is
\* answered with its empty content, which is not null.
C11_FailedDiskTierResolvesNull ==
    \A i \in DOMAIN requests :
        (/\ ReachesTiers(requests[i]) /\ OnlyOnDisk(requests[i])
         /\ ~(IsMarkdownFile(requests[i].path) /\ currentFile = requests[i].path))
            => /\ requests[i].state \in {"readFile", "answered"}
               /\ \A k \in ResponsesTo(i) :
                     /\ disk[requests[i].path] = Undefined => sent[k].contents = Null
                     /\ disk[requests[i].path] = Text("")
                            => sent[k].contents = Text("") /\ sent[k].contents # Null

C11_Witness ==
    \E i \in DOMAIN requests :
        /\ ReachesTiers(requests[i]) /\ OnlyOnDisk(requests[i])
        /\ disk[requests[i].path] = Undefined
        /\ \E k \in ResponsesTo(i) : sent[k].contents = Null
\* ------------------------------------------------------------------------
\* Claims on the tab registry (RegistrySpec)
\* ------------------------------------------------------------------------
\* the tab is open and the heartbeat its timer last sent is the one on record
Beating(tab) ==
    /\ tab \in DOMAIN beat
    /\ tab \in DOMAIN livePreviewTabs
    /\ livePreviewTabs[tab].lastSeen = beat[tab]

\* the tabs a step removes from the registry
Evicted == DOMAIN livePreviewTabs \ DOMAIN livePreviewTabs'

\* C12: a tab whose heartbeats keep arriving every time unit is never removed
\* from the registry, however its heartbeats and the sweeps interleave; a tab
\* is removed only when now - lastSeen is strictly greater than the timeout.
C12_HeartbeatingTabStays ==
    [][\A tab \in Evicted :
          /\ now - livePreviewTabs[tab].lastSeen > TAB_HEARTBEAT_TIMEOUT
          /\ ~(Beating(tab) /\ HeartbeatPeriod(tab) = ContentHeartbeatPeriod)]_vars

C12_Witness ==
    /\ Beating("T1")
    /\ closed["T1"] = 0
    /\ now > TAB_HEARTBEAT_TIMEOUT + SweepPeriod
    /\ swept = now

\* C13: a tab that stopped sending heartbeats is removed by the first sweep
\* that runs once its last heartbeat is older than the timeout, so no record
\* is older than the timeout plus one sweep period; a removed tab stays
\* absent until a heartbeat of it arrives.
C13_SilentTabEvicted ==
    /\ [](\A tab \in DOMAIN livePreviewTabs :
            /\ now - livePreviewTabs[tab].lastSeen <= TAB_HEARTBEAT_TIMEOUT + SweepPeriod
            /\ now - swept < SweepPeriod
                   => now - livePreviewTabs[tab].lastSeen <= TAB_HEARTBEAT_TIMEOUT)
    /\ [][/\ swept' # swept
              => \A tab \in DOMAIN livePreviewTabs :
                    Expired(livePreviewTabs[tab], now) => tab \in Evicted
          /\ \A tab \in DOMAIN livePreviewTabs' \ DOMAIN livePreviewTabs :
                /\ livePreviewTabs'[tab].lastSeen = now
                /\ tab \in DOMAIN beat /\ beat'[tab] = now]_vars

C13_Witness ==
    /\ closed["T1"] = 1
    /\ "T1" \notin DOMAIN livePreviewTabs
    /\ "T1" \notin DOMAIN beat
    /\ swept > TAB_HEARTBEAT_TIMEOUT

\* C14: BROWSER_CLOSE with the ID of a tab is triggered exactly once in the
\* step that removes the record of a live preview page, never when the record
\* of a loader page is removed, and never for a tab that stays in the
\* registry.
C14_CloseOncePerContentEviction ==
    /\ [](\A l \in Loaders : closed[l] = 0)
    /\ [][\A tab \in TabIDs :
            /\ closed'[tab] - closed[tab] =
                   (IF tab \in Evicted /\ tab \in Clients THEN 1 ELSE 0)
            /\ closed'[tab] # closed[tab] => tab \notin DOMAIN livePreviewTabs']_vars

C14_Witness ==
    /\ closed["T1"] = 1
    /\ "T1" \notin DOMAIN livePreviewTabs
    /\ "L1" \notin DOMAIN livePreviewTabs
    /\ "L1" \notin DOMAIN beat
    /\ closed["L1"] = 0
    /\ swept = MaxTime
\* ------------------------------------------------------------------------
\* Claims on the started server instance (Spec)
\* ------------------------------------------------------------------------
\* the step passes the GET_CONTENT with requestID i to getContent
HandledNow(i) ==
    /\ i \in DOMAIN requests'
    /\ i \notin DOMAIN requests \/ requests[i].state = "relayed"
    /\ requests'[i].state \notin {"relayed", "discarded", "ignored"}

Posts(m) == navigatorChannel' = Append(navigatorChannel, m)

\* the step hands the loader page l the next message of the channel
DeliversTo(l) ==
    /\ l \in DOMAIN received /\ l \in DOMAIN received'
    /\ received'[l] = received[l] + 1

\* C16: the reply to GET_INITIAL_URL of a loader page is one
\* INITIAL_URL_NAVIGATE with the ID of that page and the current preview URL;
\* when it is handled, the page it names navigates its frame to that URL if
\* it is acknowledged, and the displayed frame of any other page stays as it
\* was, acknowledged or not.
C16_InitialUrlForRequesterOnly ==
    /\ [][(/\ Len(initialUrlRequests') < Len(initialUrlRequests)
           /\ navigatorChannel' # navigatorChannel)
              => Posts(NavMessage("INITIAL_URL_NAVIGATE", currentPopoutURL, FALSE,
                                  Head(initialUrlRequests), ""))]_vars
    /\ [][\A l \in Loaders :
            (DeliversTo(l) /\ navigatorChannel[received'[l]].type = "INITIAL_URL_NAVIGATE")
                => LET data == navigatorChannel[received'[l]]
                   IN  /\ (data.pageLoaderID = l /\ loader[l].securityAlertAcknowledged)
                              => loader'[l].previewFrame = data.URL
                       /\ data.pageLoaderID # l
                              => loader'[l].previewFrame = loader[l].previewFrame
                       /\ \A other \in Loaders \ {l} : loader'[other] = loader[other]]_vars

C16_Witness ==
    \E k \in DOMAIN navigatorChannel :
        /\ navigatorChannel[k].type = "INITIAL_URL_NAVIGATE"
        /\ navigatorChannel[k].pageLoaderID = "L1"
        /\ "L2" \in DOMAIN received /\ received["L2"] = k
        /\ loader["L2"].securityAlertAcknowledged
        /\ loader["L2"].previewFrame # navigatorChannel[k].URL
        /\ "L1" \in DOMAIN received /\ received["L1"] = k
        /\ loader["L1"].previewFrame = navigatorChannel[k].URL

\* the REDIRECT_PAGE messages among the first k messages of the channel
RedirectsBefore(k) ==
    {j \in 1..k : navigatorChannel[j].type = "REDIRECT_PAGE"}

\* the URL of the most recent REDIRECT_PAGE among the first k messages
LastRedirectURL(k) ==
    IF RedirectsBefore(k) = {} THEN NoURL
    ELSE navigatorChannel[CHOOSE j \in RedirectsBefore(k) :
                              \A i \in RedirectsBefore(k) : i <= j].URL

\* C17: redirectAllTabs(u, force) records u and posts REDIRECT_PAGE{u,
\* force}; the current preview URL is always the URL of the most recent
\* REDIRECT_PAGE, every GET_INITIAL_URL handled after a redirect is answered,
\* and every INITIAL_URL_NAVIGATE carries the URL of the most recent
\* REDIRECT_PAGE posted before it.
C17_InitialUrlIsLastRedirect ==
    /\ [](currentPopoutURL = LastRedirectURL(Len(navigatorChannel)))
    /\ [](\A k \in DOMAIN navigatorChannel :
             navigatorChannel[k].type = "INITIAL_URL_NAVIGATE"
                 => /\ RedirectsBefore(k) # {}
                    /\ navigatorChannel[k].URL = LastRedirectURL(k))
    /\ [][\A u \in {PreviewURL(file) : file \in Paths \cup {NoPath}}, force \in BOOLEAN :
            RedirectAllTabs(u, force)
                => /\ currentPopoutURL' = u
                   /\ Posts(NavMessage("REDIRECT_PAGE", u, force, NoLoader, ""))]_vars
    /\ [][(Len(initialUrlRequests') < Len(initialUrlRequests) /\ currentPopoutURL # NoURL)
              => /\ Len(navigatorChannel') = Len(navigatorChannel) + 1
                 /\ navigatorChannel'[Len(navigatorChannel')].URL = currentPopoutURL]_vars

C17_Witness ==
    \E i, j, k \in DOMAIN navigatorChannel :
        /\ i < j /\ j < k
        /\ navigatorChannel[i].type = "REDIRECT_PAGE"
        /\ navigatorChannel[j].type = "REDIRECT_PAGE"
        /\ navigatorChannel[i].URL # navigatorChannel[j].URL
        /\ navigatorChannel[k].type = "INITIAL_URL_NAVIGATE"
        /\ navigatorChannel[k].URL = navigatorChannel[j].URL

\* the step runs the continuation of a project load that changed the root
CompletesOpen ==
    /\ loadingProject.pending /\ loadingProject.projectRootChanged
    /\ ~loadingProject'.pending

\* the PROJECT_SWITCH messages of a channel
Switches(channel) == {k \in DOMAIN channel : channel[k].type = "PROJECT_SWITCH"}

LiveOf(req) == liveDocuments[staticServerInstance][req.path]
OpenOf(req) == openDocuments[req.path]

\* the request is for the markdown file that is the current file
IsCurrentMarkdown(req) == IsMarkdownFile(req.path) /\ currentFile = req.path

\* C19 (as stated): a path within the project without overlay entry is
\* answered with the body of its live document if it has one, else with the
\* text of its open document if it has one, else with what the disk read
\* gives.
C19_LiveThenOpenThenDisk ==
    \A i \in DOMAIN requests :
        ReachesTiers(requests[i])
            => IF LiveOf(requests[i]) # Undefined
               THEN /\ requests[i].state = "answered"
                    /\ \A k \in ResponsesTo(i) : sent[k].contents = LiveOf(requests[i])
               ELSE IF OpenOf(requests[i]) # Undefined
               THEN /\ requests[i].state = "answered"
                    /\ \A k \in ResponsesTo(i) : sent[k].contents = OpenOf(requests[i])
               ELSE /\ requests[i].state \in {"readFile", "answered"}
                    /\ \A k \in ResponsesTo(i) :
                          sent[k].contents = ReadFileResult(requests[i].path).contents

\* C19 (amended): the same precedence holds for a path that is not the
\* current markdown file, except that a popped-out request for a live
\* document whose body has lost the remote script is answered with a
\* redirect page instead of that body.
C19_TierPrecedence ==
    \A i \in DOMAIN requests :
        (ReachesTiers(requests[i]) /\ ~IsCurrentMarkdown(requests[i]))
            => IF LiveOf(requests[i]) # Undefined
               THEN /\ requests[i].state = "answered"
                    /\ \A k \in ResponsesTo(i) :
                          IF requests[i].url.popout /\ ~LiveOf(requests[i]).script
                          THEN sent[k].contents.kind = "redirect"
                          ELSE sent[k].contents = LiveOf(requests[i])
               ELSE IF OpenOf(requests[i]) # Undefined
               THEN /\ requests[i].state = "answered"
                    /\ \A k \in ResponsesTo(i) : sent[k].contents = OpenOf(requests[i])
               ELSE /\ requests[i].state \in {"readFile", "answered"}
                    /\ \A k \in ResponsesTo(i) :
                          sent[k].contents = ReadFileResult(requests[i].path).contents

C19_Witness ==
    \E i \in DOMAIN requests :
        /\ ReachesTiers(requests[i])
        /\ LiveOf(requests[i]) = Undefined
        /\ OpenOf(requests[i]) = Text("# Hi")
        /\ disk[requests[i].path] = Text("BOM# Hi")
        /\ currentFile \notin {NoPath, requests[i].path}
        /\ \E k \in ResponsesTo(i) : sent[k].contents = Text("# Hi")
\* ------------------------------------------------------------------------
\* Claims on the markdown tier (ResolveSpec)
\* ------------------------------------------------------------------------
\* the request passed the two guards of getContent
Served(req) ==
    /\ req.state # "ignored"
    /\ staticServerInstance # NoInstance
    /\ UrlStartsWithBaseUrl(req.url)

\* the text getDocumentForPath gives for a path: that of the open document,
\* else that of the file
DocumentText(path) ==
    IF openDocuments[path] # Undefined THEN openDocuments[path].text
    ELSE disk[path].text

\* what the content tiers give for a request
TierResponse(req) ==
    LET promise == GetInstrumentedContent(staticServerInstance, req.path, req.url)
    IN  IF promise.kind = "resolved" THEN promise.response
        ELSE ReadFileResult(req.path)

\* C20: a request for the markdown file that is the current file is answered
\* only with the HTML rendered from its text, wrapped in the page template,
\* with the Content-Type text/html, and never with the markdown text itself;
\* a request for a markdown path that is not the current file is answered
\* with what the content tiers give.
C20_CurrentMarkdownRendered ==
    \A i \in DOMAIN requests : \A k \in ResponsesTo(i) :
        (Served(requests[i]) /\ IsMarkdownFile(requests[i].path))
            => IF currentFile = requests[i].path
               THEN /\ sent[k].contents.kind = "markdown"
                    /\ sent[k].contents.text =
                          MarkedParse(StripZeroWidth(DocumentText(requests[i].path)))
                    /\ sent[k].headers = "text/html"
                    /\ sent[k].contents \notin
                          {openDocuments[requests[i].path], disk[requests[i].path]}
               ELSE /\ sent[k].contents = TierResponse(requests[i]).contents
                    /\ sent[k].headers = TierResponse(requests[i]).headers
                    /\ sent[k].contents.kind # "markdown"

C20_Witness ==
    \E i \in DOMAIN requests : \E k \in ResponsesTo(i) :
        /\ Served(requests[i])
        /\ IsCurrentMarkdown(requests[i])
        /\ openDocuments[requests[i].path] = Undefined
        /\ disk[requests[i].path] = Text("BOM# Hi")
        /\ sent[k].contents.text = "<h1>Hi</h1>"
\* ------------------------------------------------------------------------
\* Claims on the Content-Type header (ResolveSpec)
\* ------------------------------------------------------------------------
HtmlContentType == "text/html;charset=UTF-8"
HasHtmlExtension(path) == path.ext \in {"htm", "html", "xhtml", "php"}

\* C21: a response that returns content for a path with an HTML-family
\* extension carries the Content-Type text/html;charset=UTF-8, whichever
\* tier gave the content, and a response for another extension does not.
C21_HtmlHeaderOnEveryTier ==
    \A i \in DOMAIN requests : \A k \in ResponsesTo(i) :
        sent[k].contents \notin {Null, Undefined}
            => (sent[k].headers = HtmlContentType
                    <=> HasHtmlExtension(requests[i].path))
\* ------------------------------------------------------------------------
\* Claims on the failure of the markdown tier (ResolveSpec)
\* ------------------------------------------------------------------------
\* the document of the path can not be obtained: not open, not readable
DocumentUnavailable(path) ==
    openDocuments[path] = Undefined /\ disk[path] = Undefined

EVENT_GET_PHOENIX_INSTANCE_ID == "GET_PHOENIX_INSTANCE_ID"
EVENT_GET_CONTENT == "GET_CONTENT"
EVENT_TAB_ONLINE == "TAB_ONLINE"
EVENT_REPORT_ERROR == "REPORT_ERROR"
RouterEvents == {EVENT_GET_PHOENIX_INSTANCE_ID, EVENT_GET_CONTENT,
                 EVENT_TAB_ONLINE, EVENT_REPORT_ERROR}
\* names it has no case for: two the module listens for itself, one nobody
\* in this module listens for
EVENT_UPDATE_TITLE_ICON == "UPDATE_TITLE_AND_ICON"
EVENT_EMBEDDED_IFRAME_ESCAPE_PRESS == "embeddedEscapeKeyPressed"
EventNames == RouterEvents \cup
    {EVENT_UPDATE_TITLE_ICON, EVENT_EMBEDDED_IFRAME_ESCAPE_PRESS, "LIVE_DEV_EVENT"}

\* data of a relay message: {eventName, message}, the message with the
\* fields the handlers read
RelayData(eventName, clientID, path, url) ==
    [eventName |-> eventName,
     message |-> [clientID |-> clientID, URL |-> url, path |-> path, url |-> url]]
\* the envelope of the relay channel: {pageLoaderID, data}
Envelope(pageLoaderID, data) == [pageLoaderID |-> pageLoaderID, data |-> data]

\* the PHOENIX_INSTANCE_ID message as posted, with the fields of Posted
InstanceIdMessage(pageLoaderID, toIframe) ==
    [type |-> "PHOENIX_INSTANCE_ID", requestID |-> 0,
     path |-> NoPath, contents |-> Undefined, headers |-> NoHeaders,
     pageLoaderID |-> pageLoaderID, toIframe |-> toIframe]

\* exports.on(EVENT_UPDATE_TITLE_ICON): the title of the previewed page is
\* broadcast to the loader pages
UpdateTitleIcon(channel) ==
    Append(channel, NavMessage("UPDATE_TITLE_ICON", NoURL, FALSE, NoLoader, ""))

\* exports.trigger(eventName, {data}): the event is dispatched once to the
\* listeners of that name
Trigger(eventName, data) ==
    /\ triggered' = Append(triggered, [eventName |-> eventName, data |-> data])
    /\ navigatorChannel' = IF eventName = EVENT_UPDATE_TITLE_ICON
                           THEN UpdateTitleIcon(navigatorChannel)
                           ELSE navigatorChannel

\* livePreviewChannel.onmessage that drops what it has no case for
LivePreviewChannelOnMessage_DropsUnknown(pageLoaderID, data) ==
    /\ Len(routed) < MaxMessages
    /\ routed' = Append(routed, Envelope(pageLoaderID, data))
    /\ CASE data.eventName = EVENT_GET_PHOENIX_INSTANCE_ID ->
              /\ sent' = Append(sent, InstanceIdMessage(pageLoaderID, FALSE))
              /\ UNCHANGED <<requests, triggered, reported, forwarded, heard, registryVars,
                             navigatorVars, resolverVars, loader, previewVars>>
         [] data.eventName = EVENT_GET_CONTENT ->
              /\ Len(requests) < MaxRequests
              /\ LET req == Request(Len(requests) + 1, data.message.path,
                                    data.message.url, "relay", pageLoaderID,
                                    EditorOrigin, "relayed")
                 IN  HandleGetContent(Append(requests, req), req)
              /\ UNCHANGED <<triggered, reported, forwarded, heard, registryVars,
                             navigatorVars, resolverVars, loader, previewVars>>
         [] data.eventName = EVENT_TAB_ONLINE ->
              /\ TabOnline(data.message.clientID, data.message.URL)
              /\ UNCHANGED <<beat, triggered, reported, forwarded, heard, previewVars>>
         [] data.eventName = EVENT_REPORT_ERROR ->
              /\ reported' = reported + 1
              /\ UNCHANGED <<protocolVars, triggered, forwarded, heard, registryVars,
                             navigatorVars, resolverVars, loader, previewVars>>
         [] OTHER ->
              UNCHANGED <<protocolVars, triggered, reported, forwarded, heard, registryVars,
                          navigatorVars, resolverVars, loader, previewVars>>

\* livePreviewChannel.onmessage of the editor: the switch on data.eventName
LivePreviewChannelOnMessage(pageLoaderID, data) ==
    /\ Len(routed) < MaxMessages
    /\ routed' = Append(routed, Envelope(pageLoaderID, data))
    /\ CASE data.eventName = EVENT_GET_PHOENIX_INSTANCE_ID ->
              /\ sent' = Append(sent, InstanceIdMessage(pageLoaderID, FALSE))
              /\ UNCHANGED <<requests, triggered, reported, forwarded, heard, registryVars,
                             navigatorVars, resolverVars, loader, previewVars>>
         [] data.eventName = EVENT_GET_CONTENT ->
              /\ Len(requests) < MaxRequests
              /\ LET req == Request(Len(requests) + 1, data.message.path,
                                    data.message.url, "relay", pageLoaderID,
                                    EditorOrigin, "relayed")
                 IN  HandleGetContent(Append(requests, req), req)
              /\ UNCHANGED <<triggered, reported, forwarded, heard, registryVars,
                             navigatorVars, resolverVars, loader, previewVars>>
         [] data.eventName = EVENT_TAB_ONLINE ->
              /\ TabOnline(data.message.clientID, data.message.URL)
              /\ UNCHANGED <<beat, triggered, reported, forwarded, heard, previewVars>>
         [] data.eventName = EVENT_REPORT_ERROR ->
              /\ reported' = reported + 1
              /\ UNCHANGED <<protocolVars, triggered, forwarded, heard, registryVars,
                             navigatorVars, resolverVars, loader, previewVars>>
         [] OTHER ->
              /\ Trigger(data.eventName, data)
              /\ UNCHANGED <<protocolVars, reported, forwarded, heard, registryVars,
                             currentPopoutURL, received, initialUrlRequests,
                             loadingProject, resolverVars, loader, previewVars>>
\* the listener of EVENT_REPORT_ERROR stopping the server on an error
EmbeddedReportError_StopsServer ==
    /\ reported < MaxMessages
    /\ reported' = reported + 1
    /\ staticServerInstance' = NoInstance
    /\ UNCHANGED <<routed, triggered, forwarded, heard, protocolVars, registryVars,
                   navigatorVars, virtualServingDocuments, liveDocuments,
                   openDocuments, disk, currentFile, projectRoot, loader,
                   previewVars>>

\* exports.on(EVENT_REPORT_ERROR)
EmbeddedReportError ==
    /\ reported < MaxMessages
    /\ reported' = reported + 1
    /\ UNCHANGED <<routed, triggered, forwarded, heard, protocolVars, registryVars,
                   navigatorVars, resolverVars, loader, previewVars>>

\* exports.on(EVENT_GET_PHOENIX_INSTANCE_ID): messageToLivePreviewTabs posts to
\* the embedded server frame and, with no pageLoaderID, on the relay channel
EmbeddedGetPhoenixInstanceID ==
    /\ Len(sent) < MaxMessages
    /\ sent' = Append(sent, InstanceIdMessage(NoLoader, TRUE))
    /\ UNCHANGED <<requests, routerVars, registryVars, navigatorVars, resolverVars,
                   loader, previewVars>>

\* exports.on(EVENT_TAB_ONLINE)
EmbeddedTabOnline(clientID, URL) ==
    /\ TabOnline(clientID, URL)
    /\ UNCHANGED <<beat, routerVars, previewVars>>

\* exports.on(EVENT_UPDATE_TITLE_ICON) for an event of the embedded frame
EmbeddedUpdateTitleIcon ==
    /\ Len(navigatorChannel) < MaxMessages
    /\ navigatorChannel' = UpdateTitleIcon(navigatorChannel)
    /\ UNCHANGED <<currentPopoutURL, received, initialUrlRequests, loadingProject,
                   routerVars, protocolVars, registryVars, resolverVars, loader, previewVars>>

\* navigatorChannel.onmessage of the editor, case TAB_LOADER_ONLINE
NavigatorTabLoaderOnline(pageLoaderID) ==
    /\ TabLoaderOnline(pageLoaderID)
    /\ UNCHANGED <<beat, routerVars, previewVars>>

\* BaseServer.prototype.addVirtualContentAtPath / removeVirtualContentAtPath
AddVirtualContentAtPath(self, path, docText) ==
    /\ virtualServingDocuments' =
          [virtualServingDocuments EXCEPT ![self][DocumentKey(path)] = Text(docText)]
    /\ UNCHANGED <<staticServerInstance, liveDocuments, openDocuments, disk,
                   currentFile, projectRoot, protocolVars, loader, coordinatorVars>>

RemoveVirtualContentAtPath(self, path) ==
    /\ virtualServingDocuments' =
          [virtualServingDocuments EXCEPT ![self][DocumentKey(path)] = Undefined]
    /\ UNCHANGED <<staticServerInstance, liveDocuments, openDocuments, disk,
                   currentFile, projectRoot, protocolVars, loader, coordinatorVars>>

\* BaseServer.prototype.clear: the live documents and the overlay are emptied
Clear(self) ==
    /\ virtualServingDocuments' =
          [virtualServingDocuments EXCEPT ![self] = OnlyAt(NoPath, Undefined)]
    /\ liveDocuments' = [liveDocuments EXCEPT ![self] = OnlyAt(NoPath, Undefined)]
    /\ UNCHANGED <<staticServerInstance, openDocuments, disk, currentFile,
                   projectRoot, protocolVars, loader, coordinatorVars>>

\* ------------------------------------------------------------------------
\* The editor handling messages of remote surfaces while the overlay and
\* the server change
\* ------------------------------------------------------------------------
RouterInit == Init

\* what a surface sends under an event name
DataOf(eventName) ==
    RelayData(eventName, "T1", OldHtml, UrlOf(PHOENIX_INSTANCE_ID, OldHtml))

RouterNext ==
    \/ \E eventName \in EventNames :
          LivePreviewChannelOnMessage("L1", DataOf(eventName))
    \/ \E i \in 1..MaxRequests : ReadFileDone(i)
    \/ StartServer("A")
    \/ Clear("A")

RouterSpec == RouterInit /\ [][RouterNext]_vars

\* ------------------------------------------------------------------------
\* The editor handling the messages of every kind of remote surface while
\* the overlay and the server change
\* ------------------------------------------------------------------------
\* the number of messages the editor has handled or posted
Traffic == Len(routed) + Len(sent) + Len(navigatorChannel) + reported

\* the event names a preview page sends on the relay channel
SurfaceEvents == RouterEvents \cup {EVENT_UPDATE_TITLE_ICON}

SurfaceInit == Init

\* the editor takes up another message only while it has handled few
Quiet == Traffic + 1 < MaxRequests

SurfaceNext ==
    \/ \E eventName \in SurfaceEvents :
          Quiet /\ LivePreviewChannelOnMessage("L1", DataOf(eventName))
    \/ Quiet /\ EmbeddedGetContent(NewHtml, UrlOf(PHOENIX_INSTANCE_ID, NewHtml),
                                   PHOENIX_INSTANCE_ID)
    \/ Quiet /\ EmbeddedReportError
    \/ Quiet /\ EmbeddedGetPhoenixInstanceID
    \/ Quiet /\ EmbeddedUpdateTitleIcon
    \/ Quiet /\ RedirectAllTabs(PreviewURL(OldHtml), FALSE)
    \/ \E i \in 1..MaxRequests : ReadFileDone(i)
    \/ EmbeddedTabOnline("T1", TabURL)
    \/ JoinPage("L1")
    \/ SendInitialURL
    \/ NavigatorTabLoaderOnline("L1")
    \/ AddVirtualContentAtPath("A", OldHtml, "<p>overlay</p>")
    \/ RemoveVirtualContentAtPath("A", OldHtml)
    \/ Clear("A")
    \/ StartServer("A")
    \/ StopServer("A")

SurfaceSpec == SurfaceInit /\ [][SurfaceNext]_vars
\* ------------------------------------------------------------------------
\* Claims on the router of the relay channel (RouterSpec)
\* ------------------------------------------------------------------------
\* the envelopes handled so far whose event name the switch has no case for
Unrecognised == SelectSeq(routed, LAMBDA e : e.data.eventName \notin RouterEvents)

\* the step handles a relay message with the given event name
Routes(eventName) ==
    /\ routed' # routed
    /\ routed'[Len(routed')].data.eventName = eventName

\* C23: every relay message whose event name is none of
\* GET_PHOENIX_INSTANCE_ID, GET_CONTENT, TAB_ONLINE, REPORT_ERROR is triggered
\* on the module exactly once, under its event name and with its data, in the
\* order received; a message with one of these names is handled by its own
\* handler (the instance ID is posted to the sender, the request is taken
\* up, the tab is recorded, the error is reported) and triggers nothing.
C23_UnknownEventsTriggeredOnce ==
    /\ [](triggered = [k \in 1..Len(Unrecognised) |->
                          [eventName |-> Unrecognised[k].data.eventName,
                           data |-> Unrecognised[k].data]])
    /\ [][(\E eventName \in RouterEvents : Routes(eventName))
             => triggered' = triggered]_vars
    /\ [][Routes(EVENT_GET_PHOENIX_INSTANCE_ID)
             => sent' = Append(sent, InstanceIdMessage(
                                  routed'[Len(routed')].pageLoaderID, FALSE))]_vars
    /\ [][Routes(EVENT_GET_CONTENT) => Len(requests') = Len(requests) + 1]_vars
    /\ [][Routes(EVENT_TAB_ONLINE)
             => /\ "T1" \in DOMAIN livePreviewTabs'
                /\ livePreviewTabs'["T1"].lastSeen = now]_vars
    /\ [][Routes(EVENT_REPORT_ERROR) => reported' = reported + 1]_vars

C23_Witness ==
    /\ Len(routed) = 3
    /\ routed[1].data.eventName = "LIVE_DEV_EVENT"
    /\ routed[2].data.eventName = EVENT_GET_CONTENT
    /\ routed[3].data.eventName = EVENT_UPDATE_TITLE_ICON
    /\ Len(triggered) = 2
    /\ triggered[2].eventName = EVENT_UPDATE_TITLE_ICON
\* ------------------------------------------------------------------------
\* Content selection: getPreviewDetails (BrowserStaticServer.js)
\* ------------------------------------------------------------------------
\* files the editor can have as its current file besides those of Paths: a
\* stylesheet of the project and a file whose path is a URL
StyleCss == [root |-> "/proj/", name |-> "style", ext |-> "css"]
RemoteHtml == [root |-> "https://site/", name |-> "page", ext |-> "html"]
PreviewFiles == Paths \cup {StyleCss, RemoteHtml}

\* fullPath.startsWith("http://") || fullPath.startsWith("https://")
IsHttpPath(fullPath) == fullPath.root \in {"http://site/", "https://site/"}

\* utils.isSVG and utils.isPreviewableFile
IsSVG(fullPath) == fullPath.ext = "svg"
IsPreviewableFile(fullPath) ==
    fullPath.ext \in {"html", "htm", "xhtml", "php", "md", "markdown", "svg"}

\* getLivePreviewNotSupportedURL and getNoPreviewURL with the texts for a
\* file the custom server does not serve
NotSupportedURL == [inst |-> <<>>,
                    path |-> [root |-> "", name |-> "live-preview-error", ext |-> "html"],
                    popout |-> FALSE]
NoPreviewExcludedURL == [inst |-> <<>>,
                         path |-> [root |-> "", name |-> "no-preview-excluded",
                                   ext |-> "html"],
                         popout |-> FALSE]

\* LivePreviewSettings.getCustomServerConfig(fullPath): the URL of the file
\* on the server the user configured
CustomServeURL(fullPath) ==
    [inst |-> <<>>,
     path |-> [root |-> "http://localhost:3000/", name |-> fullPath.name,
               ext |-> fullPath.ext],
     popout |-> FALSE]

\* `${PREVIEW_BASE_URL}${projectRoot}${path.relative(projectRoot, fullPath)}`
ProjectFileURL(fullPath) ==
    [inst |-> PREVIEW_BASE_URL, path |-> fullPath, popout |-> FALSE]
\* the URL of a file whose path is a URL: the path itself
HttpFileURL(fullPath) == [inst |-> <<>>, path |-> fullPath, popout |-> FALSE]

\* getPreviewDetails answering the placeholder for every file that is not
\* previewable
GetPreviewDetails_NoFallback(file, settings) ==
    IF ~settings.supported
    THEN Details("resolved", NotSupportedURL, NoPath, TRUE, FALSE)
    ELSE IF file = NoPath
    THEN Details("resolved", NoPreviewURL, NoPath, TRUE, FALSE)
    ELSE IF settings.customServer = "serves"
    THEN Details("resolved", CustomServeURL(file), file, FALSE, TRUE)
    ELSE IF settings.customServer = "excludes"
            /\ ~(IsMarkdownFile(file) \/ IsSVG(file))
    THEN Details("resolved", NoPreviewExcludedURL, NoPath, TRUE, FALSE)
    ELSE IF IsPreviewableFile(file)
    THEN Details("resolved",
                 IF IsHttpPath(file) THEN HttpFileURL(file) ELSE ProjectFileURL(file),
                 file, FALSE, FALSE)
    ELSE Details("resolved", NoPreviewURL, NoPath, TRUE, FALSE)

\* getPreviewDetails for the current file (NoPath: neither a current
\* document nor a selected item)
GetPreviewDetails(file, settings) ==
    IF ~settings.supported
    THEN Details("resolved", NotSupportedURL, NoPath, TRUE, FALSE)
    ELSE IF file = NoPath
    THEN Details("resolved", NoPreviewURL, NoPath, TRUE, FALSE)
    ELSE IF settings.customServer = "serves"
    THEN Details("resolved", CustomServeURL(file), file, FALSE, TRUE)
    ELSE IF settings.customServer = "excludes"
            /\ ~(IsMarkdownFile(file) \/ IsSVG(file))
    THEN Details("resolved", NoPreviewExcludedURL, NoPath, TRUE, FALSE)
    ELSE IF IsPreviewableFile(file)
    THEN Details("resolved",
                 IF IsHttpPath(file) THEN HttpFileURL(file) ELSE ProjectFileURL(file),
                 file, FALSE, FALSE)
    ELSE IF settings.liveFile # NoPath /\ settings.related
    THEN Details("resolved", ProjectFileURL(settings.liveFile), settings.liveFile,
                 FALSE, FALSE)
    ELSE Details("resolved", NoPreviewURL, NoPath, TRUE, FALSE)

\* a call of getPreviewDetails
CallGetPreviewDetails ==
    /\ previewDetails' = GetPreviewDetails(currentFile, previewSettings)
    /\ UNCHANGED <<previewSettings, resolverVars, protocolVars, loader, registryVars,
                   navigatorVars, routerVars>>

\* the user changes the custom server, live development gets a live document
ChangeSettings(settings) ==
    /\ previewSettings' = settings
    /\ UNCHANGED <<previewDetails, resolverVars, protocolVars, loader, registryVars,
                   navigatorVars, routerVars>>

AllSettings ==
    {Settings(supported, customServer, liveFile, related) :
        supported \in BOOLEAN, customServer \in {"none", "serves", "excludes"},
        liveFile \in {NoPath, OldHtml}, related \in BOOLEAN}

PreviewInit == Init

PreviewNext ==
    \/ CallGetPreviewDetails
    \/ \E file \in PreviewFiles \cup {NoPath} : SetCurrentFile(file)
    \/ \E settings \in AllSettings : ChangeSettings(settings)

PreviewSpec == PreviewInit /\ [][PreviewNext]_vars
\* ------------------------------------------------------------------------
\* Claims on content selection (PreviewSpec)
\* ------------------------------------------------------------------------
\* the step is a call of getPreviewDetails that settles its promise
Selects == previewDetails' # previewDetails

\* C24: every URL getPreviewDetails resolves with that is not a placeholder
\* lies under the base URL of this instance, /vfs/PHOENIX_LIVE_PREVIEW_<id>.
C24_SelectedUrlUnderInstancePrefix ==
    (previewDetails.kind = "resolved" /\ ~previewDetails.isNoPreview)
        => UrlStartsWithBaseUrl(previewDetails.URL)

\* the current file can not be previewed by itself; it is related to the
\* live document
NotPreviewable == currentFile # NoPath /\ ~IsPreviewableFile(currentFile)
RelatedToLive == previewSettings.liveFile # NoPath /\ previewSettings.related

RemoteStep ==
    \/ routed' # routed
    \/ requests' # requests
    \/ sent' # sent
    \/ livePreviewTabs' # livePreviewTabs
    \/ reported' # reported
    \/ triggered' # triggered
    \/ initialUrlRequests' # initialUrlRequests

\* C26: a step of a handler that runs for a remote surface (a message of the
\* navigation channel or of the relay channel, an event of the embedded
\* server frame) changes neither the overlay map nor the pointer to the
\* started server; a step that changes one of them is a step of
\* addVirtualContentAtPath, removeVirtualContentAtPath, clear, start or stop
\* and handles no message.
C26_HandlersLeaveOverlayAndPointer ==
    [][/\ RemoteStep => UNCHANGED <<virtualServingDocuments, staticServerInstance>>
       /\ (virtualServingDocuments' # virtualServingDocuments
              \/ staticServerInstance' # staticServerInstance)
            => UNCHANGED <<protocolVars, registryVars, navigatorVars, routerVars>>
      ]_vars

C26_Witness ==
    /\ staticServerInstance = "A"
    /\ virtualServingDocuments["A"][OldHtml] = Text("<p>overlay</p>")
    /\ Len(routed) = 1
    /\ routed[1].data.eventName = EVENT_GET_CONTENT
    /\ Len(sent) = 1
    /\ sent[1].contents = Text("<p>overlay</p>")
\* ------------------------------------------------------------------------
\* Claims on the time stamps of the registry (RegistrySpec)
\* ------------------------------------------------------------------------
\* the tabs whose record a step sets: new in the registry or changed
Recorded ==
    {tab \in DOMAIN livePreviewTabs' :
        tab \notin DOMAIN livePreviewTabs
            \/ livePreviewTabs'[tab] # livePreviewTabs[tab]}

\* C27: the lastSeen of a tab never decreases while its record stays in the
\* registry, and every heartbeat that sets a record sets its lastSeen to the
\* time of receipt.
C27_LastSeenNeverDecreases ==
    [][/\ \A tab \in DOMAIN livePreviewTabs \cap DOMAIN livePreviewTabs' :
             livePreviewTabs'[tab].lastSeen >= livePreviewTabs[tab].lastSeen
       /\ \A tab \in Recorded : livePreviewTabs'[tab].lastSeen = now]_vars

C27_Witness ==
    /\ "T1" \in DOMAIN livePreviewTabs
    /\ "L1" \in DOMAIN livePreviewTabs
    /\ livePreviewTabs["T1"].lastSeen > livePreviewTabs["L1"].lastSeen
    /\ livePreviewTabs["L1"].lastSeen > 0
    /\ closed["T1"] > 0

\* the time since the last heartbeat of a tracked tab
SilentFor(tab) == now - livePreviewTabs[tab].lastSeen

\* C28: hasActiveLivePreviews() reflects the post-sweep state: whenever it
\* is true some tracked tab has its last heartbeat within the timeout.
C28_ActiveMeansFreshTab ==
    HasActiveLivePreviews
        => \E tab \in DOMAIN livePreviewTabs : SilentFor(tab) <= TAB_HEARTBEAT_TIMEOUT

\* ------------------------------------------------------------------------
\* The relay channel as heard by the loader pages (RelaySpec)
\* ------------------------------------------------------------------------
\* livePreviewChannel.onmessage of a loader page, taking the next message the
\* editor posted on the relay channel: a message whose envelope carries the
\* pageLoaderID of another page is dropped, any other is posted to the
\* embedded server frame
LoaderChannelOnMessage_ForwardsAll(l) ==
    /\ heard[l] < Len(sent)
    /\ heard' = [heard EXCEPT ![l] = @ + 1]
    /\ forwarded' = [forwarded EXCEPT ![l] = Append(@, sent[heard[l] + 1])]
    /\ UNCHANGED <<routed, triggered, reported, protocolVars, registryVars,
                   navigatorVars, resolverVars, loader, previewVars>>

LoaderChannelOnMessage(l) ==
    /\ heard[l] < Len(sent)
    /\ heard' = [heard EXCEPT ![l] = @ + 1]
    /\ LET event == sent[heard[l] + 1]
       IN  forwarded' =
               IF event.pageLoaderID # NoLoader /\ event.pageLoaderID # l
               THEN forwarded
               ELSE [forwarded EXCEPT ![l] = Append(@, event)]
    /\ UNCHANGED <<routed, triggered, reported, protocolVars, registryVars,
                   navigatorVars, resolverVars, loader, previewVars>>

\* both loader pages are open and listening before the first message, and
\* the server instance of the project is started
RelayInit ==
    /\ CoordinatorIdle
    /\ staticServerInstance = "A"
    /\ projectRoot = "/proj/"
    /\ currentFile = NoPath
    /\ virtualServingDocuments = OnlyFor("A", OnlyAt(NoPath, Undefined))
    /\ liveDocuments = OnlyFor("A", OnlyAt(OldHtml, LiveBody(TRUE)))
    /\ openDocuments = OnlyAt(NoPath, Undefined)
    /\ disk = [p \in Paths |-> IF p = OldHtml THEN Text("") ELSE Undefined]
    /\ requests = <<>>
    /\ sent = <<>>
    /\ loader = [l \in Loaders |-> PageLoad("/proj/", {}, {})]

RelayNext ==
    \/ \E l \in Loaders :
          /\ Len(sent) < MaxMessages
          /\ LivePreviewChannelOnMessage(l, DataOf(EVENT_GET_PHOENIX_INSTANCE_ID))
    \/ \E l \in Loaders :
          /\ Len(sent) < MaxMessages
          /\ LivePreviewChannelOnMessage(l, DataOf(EVENT_GET_CONTENT))
    \/ EmbeddedGetPhoenixInstanceID
    \/ /\ Len(sent) < MaxMessages
       /\ EmbeddedGetContent(OldHtml, UrlOf(PHOENIX_INSTANCE_ID, OldHtml),
                             PHOENIX_INSTANCE_ID)
    \/ \E l \in Loaders : LoaderChannelOnMessage(l)

RelaySpec == RelayInit /\ [][RelayNext]_vars

\* the relay messages a loader page has taken so far that are for it: those
\* with no pageLoaderID and those with its own
ForPage(l) ==
    SelectSeq(SubSeq(sent, 1, heard[l]),
              LAMBDA event : event.pageLoaderID \in {NoLoader, l})

\* C29: a loader page forwards a relay message to its embedded server frame
\* if and only if the envelope has no pageLoaderID or has the page's own: what
\* it has forwarded is, in order, the messages for it among those it has
\* taken, and it never forwards a message tagged for another page.
C29_ForwardsOwnAndUntagged ==
    \A l \in Loaders :
        /\ forwarded[l] = ForPage(l)
        /\ \A k \in 1..Len(forwarded[l]) :
              forwarded[l][k].pageLoaderID \in {NoLoader, l}

C29_Witness ==
    /\ heard["L1"] = Len(sent)
    /\ \E i, j, k \in 1..Len(sent) :
          /\ sent[i].pageLoaderID = "L1"
          /\ sent[j].pageLoaderID = "L2"
          /\ sent[k].pageLoaderID = NoLoader
    /\ Len(forwarded["L1"]) = 2
\* C30: PROJECT_SWITCH to a root that is not yet acknowledged makes the
\* loader page Unacknowledged, blanks its preview frame and shows the trust
\* prompt; PROJECT_SWITCH to a root already trusted makes it Acknowledged,
\* hides the prompt and loads the last known preview URL.
C30_SwitchGatesOnTrust ==
    [][\A newRoot \in Roots :
          ProjectSwitch("L1", newRoot) =>
              IF newRoot \in loader["L1"].trustedProjects
              THEN /\ loader'["L1"].securityAlertAcknowledged
                   /\ ~loader'["L1"].dialogShown
                   /\ loader'["L1"].previewFrame = loader["L1"].previewURL
              ELSE /\ ~loader'["L1"].securityAlertAcknowledged
                   /\ loader'["L1"].dialogShown
                   /\ loader'["L1"].previewFrame = AboutBlank]_vars
\* C31: when the trust button is pressed on a loader page its frame is
\* navigated to the URL of the most recent INITIAL_URL_NAVIGATE or
\* REDIRECT_PAGE it received, one received while Unacknowledged included, and
\* a later REDIRECT_PAGE navigates the frame to its URL.
C31_TrustLoadsLastReceivedUrl ==
    [][/\ (OkButtonClick("L1") /\ loader["L1"].previewURL # UndefinedURL)
            => loader'["L1"].previewFrame = loader["L1"].previewURL
       /\ \A u \in NavURLs, force \in BOOLEAN :
             (RedirectPage("L1", u, force) /\ loader["L1"].securityAlertAcknowledged)
                 => loader'["L1"].previewFrame = u]_vars
\* ------------------------------------------------------------------------
\* Heartbeats that are late or lost (BeatSpec)
\* ------------------------------------------------------------------------
\* the heartbeat timer of an open tab fires and the editor does not receive
\* the message at that time
SkipHeartbeat(tab) ==
    /\ tab \in DOMAIN beat
    /\ now - beat[tab] >= HeartbeatPeriod(tab)
    /\ beat' = [beat EXCEPT ![tab] = now]
    /\ UNCHANGED <<livePreviewTabs, now, swept, closed, navigatorVars,
                   resolverVars, protocolVars, routerVars, previewVars, loader>>

\* the heartbeat the timer of a tracked tab last sent is received late, by
\* less than one period of the timer
LateHeartbeat(tab) ==
    /\ tab \in DOMAIN beat
    /\ tab \in DOMAIN livePreviewTabs
    /\ livePreviewTabs[tab].lastSeen < beat[tab]
    /\ now > beat[tab]
    /\ now - beat[tab] < HeartbeatPeriod(tab)
    /\ IF tab \in Loaders THEN TabLoaderOnline(tab) ELSE TabOnline(tab, TabURL)
    /\ UNCHANGED <<beat, routerVars, previewVars>>

BeatInit == RegistryInit

BeatNext ==
    \/ \E tab \in {"T1", "L1"} : OpenTab(tab)
    \/ \E tab \in {"T1", "L1"} : Heartbeat(tab)
    \/ \E tab \in {"T1", "L1"} : SkipHeartbeat(tab)
    \/ \E tab \in {"T1", "L1"} : LateHeartbeat(tab)
    \/ Sweep
    \/ Tick

BeatSpec == BeatInit /\ [][BeatNext]_vars

\* the heartbeats the timer of a tracked tab has sent since the one on record
\* was received
MissedBeats(tab) ==
    IF beat[tab] <= livePreviewTabs[tab].lastSeen THEN 0
    ELSE (beat[tab] - livePreviewTabs[tab].lastSeen + HeartbeatPeriod(tab) - 1)
             \div HeartbeatPeriod(tab)

\* C32: a tab that is alive is evicted only after at least two consecutive
\* heartbeats were missed, never because of a single heartbeat received less
\* than one period late: with the heartbeat period of the loader page and the
\* timeout of 10 units, a tab with fewer than two missed heartbeats stays.
C32_EvictedAfterSeveralMissedBeats ==
    [][\A tab \in Evicted :
          /\ MissedBeats(tab) >= 2
          /\ now - livePreviewTabs[tab].lastSeen > TAB_HEARTBEAT_TIMEOUT]_vars

C32_Witness ==
    /\ closed["T1"] > 0
    /\ "T1" \in DOMAIN beat
    /\ "L1" \in DOMAIN livePreviewTabs
    /\ MissedBeats("L1") = 1
    /\ swept = now

\* C33: the preview frame of a loader page is never navigated to a preview
\* URL of a project root that is not trusted on that page: when the page is
\* Unacknowledged, so that the URL it last received was only remembered, a
\* PROJECT_SWITCH does not leave the frame on a URL of an untrusted root.
C33_SwitchLoadsNoUntrustedProjectUrl ==
    [][\A newRoot \in Roots :
          (ProjectSwitch("L1", newRoot) /\ ~loader["L1"].securityAlertAcknowledged) =>
              LET shown == loader'["L1"].previewFrame
              IN  shown.path.root \in Roots => IsTrusted("L1", shown.path.root)]_vars
\* ------------------------------------------------------------------------
\* Two server instances of which only the first is ever stopped (StopSpec)
\* ------------------------------------------------------------------------
StopInit == Init

StopNext ==
    \/ \E self \in Instances : StartServer(self)
    \/ StopServer("A")
    \/ \E p \in {NoPath, ReadmeMd} : SetCurrentFile(p)
    \/ \E p \in {OldHtml, NewHtml} :
          EmbeddedGetContent(p, UrlOf(PHOENIX_INSTANCE_ID, p), PHOENIX_INSTANCE_ID)
    \/ \E i \in 1..MaxRequests : ReadFileDone(i)

StopSpec == StopInit /\ [][StopNext]_vars

\* C34: stop() of an instance that a later start() of another instance has
\* superseded leaves the active resolver as it is: after A.start(),
\* B.start(), A.stop(), B.isActive() is still true.
C34_StaleStopKeepsActiveResolver ==
    [][(StopServer("A") /\ IsActive("B")) => IsActive("B")']_vars
C36_ResponseReachesRequesterOnly ==
    \A k \in 1..Len(sent) :
        sent[k].type = "REQUEST_RESPONSE" =>
            LET req == requests[sent[k].requestID]
            IN  /\ req.via = "relay" => sent[k].pageLoaderID = req.pageLoaderID
                /\ req.via = "embedded" =>
                      \A l \in Loaders :
                          \A n \in 1..Len(forwarded[l]) : forwarded[l][n] # sent[k]
\* ------------------------------------------------------------------------
\* Loader pages joining, with every message handled in the end (ConvergeSpec)
\* ------------------------------------------------------------------------
ConvergeInit == JoinInit

\* the redirects leave room on the channel for the reply to every page that
\* has asked or may still ask for the initial URL
ConvergeNext ==
    \/ \E file \in {OldHtml, EncodedHtml} :
          /\ Len(navigatorChannel) + Len(initialUrlRequests)
                 + Cardinality(Loaders \ DOMAIN received) + 1 < MaxMessages
          /\ RedirectAllTabs(PreviewURL(file), FALSE)
    \/ \E l \in Loaders : JoinPage(l)
    \/ SendInitialURL
    \/ \E l \in Loaders : Deliver(l)
    \/ \E l \in Loaders : OkButtonClick(l)

\* the navigation channel delivers every message to every listening page and
\* the editor handles every GET_INITIAL_URL
ConvergeSpec ==
    /\ ConvergeInit /\ [][ConvergeNext]_vars
    /\ WF_vars(SendInitialURL)
    /\ \A l \in Loaders : WF_vars(Deliver(l))

\* C37: once the editor has stopped redirecting and every navigation message
\* is delivered in the order sent, every loader page that has joined and is
\* Acknowledged shows the current preview URL of the editor in its frame,
\* whether it joined before or after the last REDIRECT_PAGE.
C37_FramesConverge ==
    \A l \in Loaders :
        <>[]((/\ l \in DOMAIN received
              /\ loader[l].securityAlertAcknowledged
              /\ currentPopoutURL # NoURL)
                 => loader[l].previewFrame = currentPopoutURL)
\* ------------------------------------------------------------------------
\* Loader pages opened with any virtualServerURL (FrameSpec)
\* ------------------------------------------------------------------------
\* navigateToInitialURL of a page opened with the query parameters
\* initialProjectRoot and virtualServerURL: the server frame gets the URL as
\* its src only if isTrustedURL accepts it
NavigateToInitialURL(l, initialProjectRoot, virtualServerURL) ==
    /\ loader' = [loader EXCEPT ![l] =
          [PageLoad(initialProjectRoot, {}, {}) EXCEPT
              !.serverFrame = IF IsTrustedURL(virtualServerURL)
                              THEN virtualServerURL ELSE BlankFrame]]
    /\ UNCHANGED <<coordinatorVars, resolverVars, protocolVars>>

FrameInit == LoaderInit

FrameNext ==
    \/ \E l \in Loaders, r \in Roots, u \in ServerURLs : NavigateToInitialURL(l, r, u)
    \/ \E l \in Loaders : OkButtonClick(l)

FrameSpec == FrameInit /\ [][FrameNext]_vars

\* C38: the embedded server frame of a loader page is loaded only from a URL
\* whose origin is in the allowlist; for any other virtualServerURL, one whose
\* host merely begins with an allowlisted origin included, it stays blank.
C38_ServerFrameFromTrustedOrigin ==
    \A l \in Loaders :
        loader[l].serverFrame # BlankFrame
            => loader[l].serverFrame.origin \in TRUSTED_ORIGINS
\* C39: a GET_INITIAL_URL handled while no preview URL was ever set posts
\* nothing, so no INITIAL_URL_NAVIGATE carries an undefined URL; and the
\* current preview URL changes only in a step of redirectAllTabs, which posts
\* the REDIRECT_PAGE with the new URL: a project switch and the inbound
\* messages leave it unchanged.
C39_NoInitialUrlBeforeRedirect ==
    /\ [][(Len(initialUrlRequests') < Len(initialUrlRequests) /\ currentPopoutURL = NoURL)
              => navigatorChannel' = navigatorChannel]_vars
    /\ [](\A k \in DOMAIN navigatorChannel :
             navigatorChannel[k].type = "INITIAL_URL_NAVIGATE"
                 => navigatorChannel[k].URL # NoURL)
    /\ [][currentPopoutURL' # currentPopoutURL
              => Posts(NavMessage("REDIRECT_PAGE", currentPopoutURL',
                                  navigatorChannel'[Len(navigatorChannel')].force,
                                  NoLoader, ""))]_vars

C39_Witness ==
    /\ currentPopoutURL = NoURL
    /\ "L1" \in DOMAIN received
    /\ initialUrlRequests = <<>>
    /\ \E k \in DOMAIN navigatorChannel : navigatorChannel[k].type = "PROJECT_SWITCH"
    /\ \A k \in DOMAIN navigatorChannel : navigatorChannel[k].type # "INITIAL_URL_NAVIGATE"
\* C40: hasActiveLivePreviews() is true exactly when the registry holds at
\* least one record, of a preview page or of a loader page: a registry with
\* records of loader pages only still reports an active live preview; and
\* the loader flag of a record is the one the most recent heartbeat of its ID
\* set, true for TAB_LOADER_ONLINE and unset for TAB_ONLINE.
C40_ActiveIffAnyRecord ==
    /\ [](HasActiveLivePreviews
             = (\E tab \in TabIDs : tab \in DOMAIN livePreviewTabs))
    /\ []((\E l \in Loaders : l \in DOMAIN livePreviewTabs) => HasActiveLivePreviews)
    /\ [][\A tab \in Recorded :
             livePreviewTabs'[tab].navigationTab = (tab \in Loaders)]_vars

C40_Witness ==
    /\ DOMAIN livePreviewTabs = {"L1"}
    /\ livePreviewTabs["L1"].navigationTab
    /\ HasActiveLivePreviews
    /\ closed["T1"] > 0
====
